---------------------------- MODULE Spec2Model ----------------------------
(***************************************************************************)
(* Model of the communication engine of the Sungrow Modbus integration:    *)
(*   - CircuitBreaker and ModbusController.connect  (modbus_controller.py) *)
(*   - ModbusClientManager, the connection pool     (client_manager.py)    *)
(*   - the write queue and its consumer loop        (modbus_controller.py) *)
(*   - the per-connection I/O lock used by reads, writes and battery       *)
(*     stack reads          (modbus_controller.py, battery_controller.py)  *)
(*   - RegisterCache                                  (helpers.py)         *)
(*   - the polling scheduler's in-flight deduplication (data_retrieval.py) *)
(*   - detect_battery_stacks                        (battery_controller.py)*)
(*   - the controller's operations, their cancellation and the inter-frame *)
(*     delay                                        (modbus_controller.py) *)
(*   - frames of several controllers and of the battery reader on one      *)
(*     transport            (modbus_controller.py, battery_controller.py)  *)
(*   - threads calling the pool's methods           (client_manager.py)    *)
(*   - the spike filter and the removal of one-shot sensor groups          *)
(*                                                  (data_retrieval.py)    *)
(*   - read_module_serials                          (battery_controller.py)*)
(*   - split_s32 and _convert_raw_value                                    *)
(*                            (helpers.py, sensors/sungrow_base_sensor.py) *)
(*   - get_bit_bool, set_bit and the select entity's set_register_bit      *)
(*                         (helpers.py, sensors/sungrow_select_entity.py)  *)
(*   - clock_drift_test                                   (helpers.py)     *)
(*   - the cache and events of the write executions                        *)
(*                                     (modbus_controller.py, helpers.py)  *)
(*                                                                         *)
(* Every component has its own specification (SpecCB, SpecConnect,         *)
(* SpecShared, SpecPool, SpecIO, SpecClose, SpecQueue, SpecQueueLive,      *)
(* SpecCache, SpecSched, SpecDetect, SpecOp, SpecFrame, SpecThreads,       *)
(* SpecSpike, SpecOnce, SpecModules, SpecModuleList, SpecNum, SpecSelect,  *)
(* SpecDrift, SpecWrite); a specification leaves the variables of the      *)
(* components it does not use unchanged.                                   *)
(***************************************************************************)
EXTENDS Integers, Sequences, FiniteSets, TLC

VARIABLES
    \* ---- CircuitBreaker (one instance) and the wall clock
    circuit_breaker,   \* [failure_threshold, recovery_timeout, state, failure_count, last_failure_time]
    now,               \* datetime.now(UTC), in whole minutes
    cb_op,             \* the breaker method called last ("tick" when the clock moved last)
    cb_pre,            \* the breaker as it was when that method was called
    cb_ret             \* what can_attempt returned (FALSE after the other methods)

cbVars == <<circuit_breaker, now, cb_op, cb_pre, cb_ret>>

VARIABLES
    \* ---- one ModbusController and the tasks that call its connect()
    client_connected,  \* self.client.connected
    connect_failures,  \* self.connect_failures
    conn_task,         \* per task: where it is in connect() and what connect() returned
    transport_connects,\* how often self.client.connect() was called
    ctl_ev,            \* the last step of a connect() call: [kind, task, raised, at]
    ctl_pre            \* breaker, connect_failures and transport_connects before that step

connVars == <<client_connected, connect_failures, conn_task, transport_connects, ctl_ev, ctl_pre>>

VARIABLES
    \* ---- ModbusClientManager
    clients,           \* self._clients: connection_id -> [client, ref_count, lock, type]
    next_client,       \* how many transport objects were constructed
    next_lock,         \* how many asyncio.Lock objects were constructed
    connected_clients, \* the transport objects whose .connected is true
    acquires,          \* per connection_id: acquires since its entry was created
    releases,          \* per connection_id: releases since its entry was created
    handed,            \* per connection_id: transports returned since its entry was created
    locks_handed,      \* per connection_id: locks returned since its entry was created
    pool_op,           \* the manager method called last: [op, key, ret, closed]
    pool_pre           \* [clients, connected, next_client] when it was called

poolVars == <<clients, next_client, next_lock, connected_clients, acquires, releases,
              handed, locks_handed, pool_op, pool_pre>>

VARIABLES
    \* ---- controllers built on the pool, and the tasks that use their transport
    ctl,               \* per controller: [built, key, client, poll_lock]
    io_pc,             \* per controller and kind of task: where the task is
    locked             \* the asyncio.Lock objects that are held

ioVars == <<ctl, io_pc, locked>>

VARIABLES
    \* ---- the write queue of one ModbusController and its consumer
    write_queue,       \* self.write_queue: the requests [caller, multiple] not yet taken
    future,            \* per caller: "none" (no request yet), "pending", what the
                       \* future was resolved with: "result" or "None", or
                       \* "cancelled" when the awaiting caller was cancelled
    wq,                \* process_write_queue: [pc, mode, cur]
    reader_holds,      \* poll_lock is held by a polling read
    wq_cancels,        \* how often the consumer task was cancelled
    submitted,         \* the callers in the order of their put
    dequeued,          \* the callers in the order their requests were taken
    wire,              \* the callers in the order their writes went to the transport
    completed,         \* how many of the writes in wire have ended
    write_ok,          \* the callers whose write got a response that is no error
    set_results,       \* per caller: how often set_result was called on its future
    before_cancel      \* the callers that had put a request when the consumer was cancelled

queueVars == <<write_queue, future, wq, reader_holds, wq_cancels, submitted, dequeued,
               wire, completed, write_ok, set_results, before_cancel>>

VARIABLES
    \* ---- RegisterCache
    cache,             \* self._cache: make_key(...) -> [value, expires_at]
    monotonic,         \* time.monotonic()
    cache_op,          \* the last call on the cache, its arguments and what it returned
    cache_pre          \* self._cache before that call

cacheVars == <<cache, monotonic, cache_op, cache_pre>>

VARIABLES
    \* ---- the polling scheduler (DataRetrieval)
    poll_updating,     \* per tier: the dedup keys of the polls in flight
    poll               \* per invocation of get_modbus_updates: where it is

schedVars == <<poll_updating, poll>>

VARIABLES
    \* ---- detect_battery_stacks
    detect,            \* where the detection is: [pc, stack_idx, module_idx, detected, probes]
    battery_reads      \* per slave id: how many reads were issued to it

detectVars == <<detect, battery_reads>>

VARIABLES
    \* ---- the operations of one controller: connect, reads, write executions
    op_task,              \* per task: [kind, pc, ret, wake]
    op_lock,              \* the task holding poll_lock, or "none"
    last_modbus_request,  \* self._last_modbus_request, in ms
    perf,                 \* time.perf_counter(), in ms
    last_modbus_success,  \* self._last_modbus_success, on the same clock
    op_ev                 \* what the last step was: the start or the end of a
                          \* transport call, or a cancellation

opVars == <<op_task, op_lock, last_modbus_request, perf, last_modbus_success, op_ev>>

VARIABLES
    \* ---- Modbus operations on one transport shared by two controllers and
    \* ---- the battery stacks of the first
    frame_pc,             \* per actor: "idle", "wait", "sleep", "io"
    frame_write,          \* per actor: the operation is a write
    frame_lock,           \* the actor holding the connection's lock, or "none"
    frame_last,           \* per controller: self._last_modbus_request, in ms
    frame_wake,           \* per controller: when its asyncio.sleep ends
    wire_last,            \* when the last operation went to the transport
    frame_ev              \* the last start of a transport call

frameVars == <<frame_pc, frame_write, frame_lock, frame_last, frame_wake, wire_last, frame_ev>>

VARIABLES
    \* ---- threads calling the pool's methods on one connection id
    mgr,                  \* self._clients, as the threads find it
    clients_lock,         \* the thread holding self._clients_lock, or "none"
    thread,               \* per thread: [op, pc, tmp, ret]
    mgr_fresh,            \* the transports and locks constructed so far
    lin,                  \* the pool of the calls made one after the other, in
                          \* the order in which they took self._clients_lock
    lin_fresh,            \* the transports and locks constructed in lin
    lin_ret               \* per thread: what its call returned in lin

threadVars == <<mgr, clients_lock, thread, mgr_fresh, lin, lin_fresh, lin_ret>>

VARIABLES
    \* ---- spike filtering of the readings of a poll
    spike_counter,        \* the sentinel readings in a row of the noisy register
    spike_cached,         \* per register: the value cache_get returns
    spike_run,            \* the sentinel readings in a row, as they arrived
    spike_ev              \* the last reading filtered, and what became of it

spikeVars == <<spike_counter, spike_cached, spike_run, spike_ev>>

VARIABLES
    \* ---- the controller's active register groups and the polls of them
    sensor_groups,        \* self._sensor_groups, a list
    once_poll,            \* the poll in progress: [pc, groups, todo, ok]
    read_ok               \* the groups read successfully in a finished poll

onceVars == <<sensor_groups, once_poll, read_ok>>

VARIABLES
    \* ---- read_module_serials of one battery stack
    modules               \* [pc, module_idx, serials, reads, records, battery, calls]

moduleVars == <<modules>>

VARIABLES
    \* ---- the decoding of register values
    num                   \* the last decoding: [fn, values, signed, multiplier, ret]

numVars == <<num>>

VARIABLES
    \* ---- the bit helpers and the select entity built on them
    sel                   \* the last call: [fn, value, p, b, once, twice, cached,
                          \*   connected, conflicts_with, requires, new, written]

selVars == <<sel>>

VARIABLES
    \* ---- the transport's environment
    conn_stable           \* the connection is up and will not drop any more

liveVars == <<conn_stable>>

VARIABLES
    \* ---- clock_drift_test of one controller
    drift_clock,          \* time.time(), in seconds; dt_utils.now() is its time of day
    drift_data,           \* hass.data[DOMAIN]: [drift_counter, last_correction] of the controller
    drift_run,            \* how many checks in a row, up to now, saw more than 60 s between the clocks
    drift_ticks,          \* how often the clock has moved
    drift_ev              \* the last check: [kind, apart, connected, since, run, counter, adjusted]

driftVars == <<drift_clock, drift_data, drift_run, drift_ticks, drift_ev>>

VARIABLES
    \* ---- the value cache and the event bus, written by the write executions
    values_cache,         \* hass.data[DOMAIN][VALUES]: key -> value
    wr                    \* the last write execution: [kind, controller, multiple, register,
                          \*   values, outcome, ret, before, fired]

writeVars == <<values_cache, wr>>

\* the components added to the engine's core
auxVars == <<cacheVars, schedVars, detectVars, opVars, frameVars, threadVars, spikeVars, onceVars, moduleVars, numVars, selVars, liveVars, driftVars, writeVars>>

vars == <<cbVars, connVars, poolVars, ioVars, queueVars, auxVars>>

\* Python's None, where the other values are strings
None == "None"
\* last_failure_time = None, where the other values are times
NoTime == -1

(***************************************************************************)
(* Bounds of the model                                                     *)
(***************************************************************************)
\* the clock runs from 0 to MaxTime minutes
MaxTime == 7
\* record_failure is not called any more once failure_count reached MaxFailures
MaxFailures == 7
\* a controller's transport is asked to connect at most MaxConnects times
MaxConnects == 7
\* at most MaxWrites write requests are submitted
MaxWrites == 3
\* the consumer task is cancelled at most MaxCancels times
MaxCancels == 1
\* time.perf_counter() advances in steps of ClockStep ms, MaxTicks times
ClockStep == 25
MaxTicks == 6
\* at most MaxOpConnects transport connects by the operations of SpecOp
MaxOpConnects == 2
\* at most MaxPolls invocations of get_modbus_updates run at a time
MaxPolls == 2
\* time.monotonic() runs from 0 to MaxMono
MaxMono == 2
\* the cache is used for MaxRegs consecutive registers
MaxRegs == 2
\* the manager constructs at most MaxClients transports and MaxLocks locks
MaxClients == 2
MaxLocks == 2
\* an entry of the pool is acquired at most MaxAcquires times
MaxAcquires == 3
\* the clock of the drift checks moves at most MaxDriftTicks times
MaxDriftTicks == 4
\* read_module_serials is called at most MaxModuleCalls times on a stack
MaxModuleCalls == 2

(***************************************************************************)
(* CircuitBreaker                                                          *)
(***************************************************************************)
CLOSED == "closed"
OPEN == "open"
HALF_OPEN == "half_open"

CIRCUIT_BREAKER_FAILURE_THRESHOLD == 5
CIRCUIT_BREAKER_RECOVERY_MINUTES == 5

\* the thresholds and recovery timeouts (minutes) a breaker is constructed with
FailureThresholds == {1, 3, CIRCUIT_BREAKER_FAILURE_THRESHOLD}
RecoveryTimeouts == {2, CIRCUIT_BREAKER_RECOVERY_MINUTES}

\* CircuitBreaker(failure_threshold=ft, recovery_timeout=rt): the dataclass defaults
CircuitBreaker(ft, rt) ==
    [failure_threshold |-> ft, recovery_timeout |-> rt,
     state |-> CLOSED, failure_count |-> 0, last_failure_time |-> NoTime]

\* a plausible slip: the time of the last failure survives a success
record_success_keep_time(cb) ==
    [cb EXCEPT !.state = CLOSED, !.failure_count = 0]

\* a plausible slip: the failure count survives a success
record_success_keep(cb) ==
    [cb EXCEPT !.state = CLOSED, !.last_failure_time = NoTime]

record_success(cb) ==
    [cb EXCEPT !.failure_count = 0, !.state = CLOSED, !.last_failure_time = NoTime]

\* a plausible slip: the circuit opens only when the threshold is exceeded
record_failure_gt(cb, t) ==
    LET c1 == [cb EXCEPT !.failure_count = @ + 1, !.last_failure_time = t]
    IN  IF c1.state = HALF_OPEN
          THEN [c1 EXCEPT !.state = OPEN]
          ELSE IF c1.failure_count > c1.failure_threshold /\ c1.state = CLOSED
                 THEN [c1 EXCEPT !.state = OPEN]
                 ELSE c1

\* t is datetime.now(UTC) at the call
record_failure(cb, t) ==
    LET c1 == [cb EXCEPT !.failure_count = @ + 1, !.last_failure_time = t]
    IN  IF c1.state = HALF_OPEN
          THEN [c1 EXCEPT !.state = OPEN]
          ELSE IF c1.failure_count >= c1.failure_threshold /\ c1.state = CLOSED
                 THEN [c1 EXCEPT !.state = OPEN]
                 ELSE c1

\* a plausible slip: the recovery timeout has to be exceeded, not only reached
can_attempt_gt(cb, t) ==
    IF cb.state = CLOSED
      THEN [ret |-> TRUE, cb |-> cb]
      ELSE IF cb.state = OPEN
        THEN IF cb.last_failure_time # NoTime /\ t - cb.last_failure_time > cb.recovery_timeout
               THEN [ret |-> TRUE, cb |-> [cb EXCEPT !.state = HALF_OPEN]]
               ELSE [ret |-> FALSE, cb |-> cb]
        ELSE [ret |-> TRUE, cb |-> cb]

\* can_attempt: the value returned and the breaker afterwards
can_attempt(cb, t) ==
    IF cb.state = CLOSED
      THEN [ret |-> TRUE, cb |-> cb]
      ELSE IF cb.state = OPEN
        THEN IF cb.last_failure_time # NoTime /\ t - cb.last_failure_time >= cb.recovery_timeout
               THEN [ret |-> TRUE, cb |-> [cb EXCEPT !.state = HALF_OPEN]]
               ELSE [ret |-> FALSE, cb |-> cb]
        ELSE [ret |-> TRUE, cb |-> cb]

\* the clock advances
Tick ==
    /\ now < MaxTime
    /\ now' = now + 1
    /\ cb_op' = "tick"
    /\ UNCHANGED <<circuit_breaker, cb_pre, cb_ret, connVars, poolVars, ioVars, queueVars, auxVars>>

(***************************************************************************)
(* ModbusController.connect                                                *)
(***************************************************************************)
ConnTasks == {"t1", "t2"}

\* what the transport's connect() may raise ("none": it returns)
ConnectRaises == {"none", "ConnectionException", "OSError", "Exception", "CancelledError"}

\* the controller as connect() reads it
Controller ==
    [connected |-> client_connected, cb |-> circuit_breaker,
     connect_failures |-> connect_failures]

\* a plausible slip: a rejected attempt is recorded as a failure
connect_begin_penalise(c, t) ==
    IF c.connected
      THEN [outcome |-> "True", cb |-> c.cb]
      ELSE IF ~can_attempt(c.cb, t).ret
             THEN [outcome |-> "False", cb |-> record_failure(can_attempt(c.cb, t).cb, t)]
             ELSE [outcome |-> "await", cb |-> can_attempt(c.cb, t).cb]

\* connect() up to `await self.client.connect()`: "True"/"False" when it returns
\* before, "await" when it calls the transport; and the breaker afterwards
connect_begin(c, t) ==
    IF c.connected
      THEN [outcome |-> "True", cb |-> c.cb]
      ELSE IF ~can_attempt(c.cb, t).ret
             THEN [outcome |-> "False", cb |-> can_attempt(c.cb, t).cb]
             ELSE [outcome |-> "await", cb |-> can_attempt(c.cb, t).cb]

\* a plausible slip: the generic `except Exception` clause forgets the breaker
connect_end_unrecorded(c, t, raised) ==
    IF raised = "CancelledError"
      THEN [ret |-> "CancelledError", cb |-> c.cb, connect_failures |-> c.connect_failures]
      ELSE IF raised = "none" /\ c.connected
        THEN [ret |-> "True", cb |-> record_success(c.cb), connect_failures |-> 0]
        ELSE IF raised = "Exception"
          THEN [ret |-> "False", cb |-> c.cb, connect_failures |-> c.connect_failures + 1]
          ELSE [ret |-> "False", cb |-> record_failure(c.cb, t),
                connect_failures |-> c.connect_failures + 1]

\* connect() from the return of `await self.client.connect()` on; c is the
\* controller at that moment, raised what the transport raised
connect_end(c, t, raised) ==
    IF raised = "CancelledError"
      THEN [ret |-> "CancelledError", cb |-> c.cb, connect_failures |-> c.connect_failures]
      ELSE IF raised = "none" /\ c.connected
        THEN [ret |-> "True", cb |-> record_success(c.cb), connect_failures |-> 0]
        ELSE [ret |-> "False", cb |-> record_failure(c.cb, t),
              connect_failures |-> c.connect_failures + 1]

\* no connect() call running, nothing connected
ConnIdle ==
    /\ client_connected = FALSE
    /\ connect_failures = 0
    /\ conn_task = [t \in ConnTasks |-> [pc |-> "idle", ret |-> "none", probe |-> FALSE]]
    /\ transport_connects = 0
    /\ ctl_ev = [kind |-> "init", task |-> "none", raised |-> "none", at |-> 0]
    /\ ctl_pre = [cb |-> CircuitBreaker(CIRCUIT_BREAKER_FAILURE_THRESHOLD,
                                        CIRCUIT_BREAKER_RECOVERY_MINUTES),
                  connect_failures |-> 0, transport_connects |-> 0]

Snapshot ==
    [cb |-> circuit_breaker, connect_failures |-> connect_failures,
     transport_connects |-> transport_connects]

\* task t calls connect(): it runs up to the first await, or to its return
ConnectCall(t) ==
    /\ conn_task[t].pc \in {"idle", "returned"}
    /\ LET r == connect_begin(Controller, now)
       IN  /\ circuit_breaker' = r.cb
           /\ IF r.outcome = "await"
                THEN /\ transport_connects < MaxConnects
                     /\ transport_connects' = transport_connects + 1
                     /\ conn_task' = [conn_task EXCEPT ![t] =
                                         [pc |-> "connecting", ret |-> "none",
                                          probe |-> r.cb.state = HALF_OPEN]]
                     /\ ctl_ev' = [kind |-> "admitted", task |-> t, raised |-> "none", at |-> 0]
                ELSE /\ transport_connects' = transport_connects
                     /\ conn_task' = [conn_task EXCEPT ![t] =
                                         [pc |-> "returned", ret |-> r.outcome, probe |-> FALSE]]
                     /\ ctl_ev' = [kind |-> IF client_connected THEN "already" ELSE "rejected",
                                   task |-> t, raised |-> "none", at |-> 0]
    /\ ctl_pre' = Snapshot
    /\ UNCHANGED <<client_connected, connect_failures, now, cb_op, cb_pre, cb_ret, poolVars, ioVars, queueVars, auxVars>>

\* the transport's connect() of task t ends: it made the connection or not,
\* or raised; connect() runs to its return
ConnectReturn(t, established, raised) ==
    /\ conn_task[t].pc = "connecting"
    /\ established => raised = "none"
    /\ client_connected' = (client_connected \/ established)
    /\ LET r == connect_end([Controller EXCEPT !.connected = client_connected'], now, raised)
       IN  /\ circuit_breaker' = r.cb
           /\ connect_failures' = r.connect_failures
           /\ conn_task' = [conn_task EXCEPT ![t] =
                                [pc |-> "returned", ret |-> r.ret, probe |-> FALSE]]
    /\ ctl_ev' = [kind |-> "returned", task |-> t, raised |-> raised, at |-> now]
    /\ ctl_pre' = Snapshot
    /\ UNCHANGED <<transport_connects, now, cb_op, cb_pre, cb_ret, poolVars, ioVars, queueVars, auxVars>>

\* the connection drops
ConnectionLost ==
    /\ client_connected
    /\ client_connected' = FALSE
    /\ ctl_ev' = [kind |-> "lost", task |-> "none", raised |-> "none", at |-> 0]
    /\ ctl_pre' = Snapshot
    /\ UNCHANGED <<connect_failures, conn_task, transport_connects, cbVars, poolVars, ioVars, queueVars, auxVars>>

\* BatteryController._read_registers finds the controller's transport
\* disconnected and calls its connect(); the transport connects or not
BatteryReadConnect(established) ==
    /\ ~client_connected
    /\ transport_connects < MaxConnects
    /\ transport_connects' = transport_connects + 1
    /\ client_connected' = established
    /\ ctl_ev' = [kind |-> "battery", task |-> "none", raised |-> "none", at |-> 0]
    /\ ctl_pre' = Snapshot
    /\ UNCHANGED <<connect_failures, conn_task, cbVars, poolVars, ioVars, queueVars, auxVars>>

CBRecordSuccess ==
    /\ circuit_breaker' = record_success(circuit_breaker)
    /\ cb_pre' = circuit_breaker
    /\ cb_op' = "record_success"
    /\ cb_ret' = FALSE
    /\ UNCHANGED <<now, connVars, poolVars, ioVars, queueVars, auxVars>>

CBRecordFailure ==
    /\ circuit_breaker.failure_count < MaxFailures
    /\ circuit_breaker' = record_failure(circuit_breaker, now)
    /\ cb_pre' = circuit_breaker
    /\ cb_op' = "record_failure"
    /\ cb_ret' = FALSE
    /\ UNCHANGED <<now, connVars, poolVars, ioVars, queueVars, auxVars>>

CBCanAttempt ==
    /\ circuit_breaker' = can_attempt(circuit_breaker, now).cb
    /\ cb_ret' = can_attempt(circuit_breaker, now).ret
    /\ cb_pre' = circuit_breaker
    /\ cb_op' = "can_attempt"
    /\ UNCHANGED <<now, connVars, poolVars, ioVars, queueVars, auxVars>>

(***************************************************************************)
(* ModbusClientManager: the connection pool                                *)
(***************************************************************************)
CONN_TYPE_TCP == "tcp"
CONN_TYPE_SERIAL == "serial"

\* connection ids: f"{host}:{port}" of a TCP endpoint, the path of a serial port
TcpKeys == {"10.0.0.5:502"}
SerialKeys == {"/dev/ttyUSB0"}
Keys == TcpKeys \cup SerialKeys

\* "lock": None, and the None get_client_lock returns; locks are 1, 2, ...
NoLock == 0

\* del d[key]
Without(d, key) == [x \in DOMAIN d \ {key} |-> d[x]]

\* a plausible slip: the entry is built anew on every call
get_tcp_client_recreate(cl, key, fresh) ==
    LET c1 == [x \in DOMAIN cl \cup {key} |->
                 IF x = key
                   THEN [client |-> fresh, ref_count |-> 0, lock |-> NoLock,
                         type |-> CONN_TYPE_TCP]
                   ELSE cl[x]]
        c2 == [c1 EXCEPT ![key].ref_count = @ + 1]
    IN  [clients |-> c2, ret |-> c2[key].client]

\* get_tcp_client; key is f"{host}:{port}", fresh the transport the constructor
\* would return: the pool afterwards and the transport returned
get_tcp_client(cl, key, fresh) ==
    LET c1 == IF key \notin DOMAIN cl
                THEN [x \in DOMAIN cl \cup {key} |->
                        IF x = key
                          THEN [client |-> fresh, ref_count |-> 0, lock |-> NoLock,
                                type |-> CONN_TYPE_TCP]
                          ELSE cl[x]]
                ELSE cl
        c2 == [c1 EXCEPT ![key].ref_count = @ + 1]
    IN  [clients |-> c2, ret |-> c2[key].client]

\* a plausible slip: only a second acquire counts a reference
get_serial_client_uncounted(cl, key, fresh) ==
    IF key \notin DOMAIN cl
      THEN [clients |-> [x \in DOMAIN cl \cup {key} |->
                           IF x = key
                             THEN [client |-> fresh, ref_count |-> 0, lock |-> NoLock,
                                   type |-> CONN_TYPE_SERIAL]
                             ELSE cl[x]],
            ret |-> fresh]
      ELSE [clients |-> [cl EXCEPT ![key].ref_count = @ + 1], ret |-> cl[key].client]

\* get_serial_client; key is serial_port
get_serial_client(cl, key, fresh) ==
    LET c1 == IF key \notin DOMAIN cl
                THEN [x \in DOMAIN cl \cup {key} |->
                        IF x = key
                          THEN [client |-> fresh, ref_count |-> 0, lock |-> NoLock,
                                type |-> CONN_TYPE_SERIAL]
                          ELSE cl[x]]
                ELSE cl
        c2 == [c1 EXCEPT ![key].ref_count = @ + 1]
    IN  [clients |-> c2, ret |-> c2[key].client]

\* a plausible slip: a lock is made on every call
get_client_lock_eager(cl, connection_id, fresh) ==
    IF connection_id \notin DOMAIN cl
      THEN [clients |-> cl, ret |-> NoLock]
      ELSE [clients |-> [cl EXCEPT ![connection_id].lock = fresh], ret |-> fresh]

\* get_client_lock; fresh is the lock asyncio.Lock() would return
get_client_lock(cl, connection_id, fresh) ==
    IF connection_id \notin DOMAIN cl
      THEN [clients |-> cl, ret |-> NoLock]
      ELSE IF cl[connection_id].lock = NoLock
        THEN [clients |-> [cl EXCEPT ![connection_id].lock = fresh], ret |-> fresh]
        ELSE [clients |-> cl, ret |-> cl[connection_id].lock]

\* a plausible slip: the entry goes only when the count is negative
release_client_lt(cl, conn, connection_id) ==
    IF connection_id \notin DOMAIN cl
      THEN [clients |-> cl, connected |-> conn, closed |-> {}]
      ELSE LET c1 == [cl EXCEPT ![connection_id].ref_count = @ - 1]
               client == c1[connection_id].client
           IN  IF c1[connection_id].ref_count < 0
                 THEN [clients |-> Without(c1, connection_id),
                       connected |-> conn \ {client},
                       closed |-> IF client \in conn THEN {client} ELSE {}]
                 ELSE [clients |-> c1, connected |-> conn, closed |-> {}]

\* release_client; conn is the set of connected transports: the pool and conn
\* afterwards, and the transports close() was called on
release_client(cl, conn, connection_id) ==
    IF connection_id \notin DOMAIN cl
      THEN [clients |-> cl, connected |-> conn, closed |-> {}]
      ELSE LET c1 == [cl EXCEPT ![connection_id].ref_count = @ - 1]
               client == c1[connection_id].client
           IN  IF c1[connection_id].ref_count <= 0
                 THEN [clients |-> Without(c1, connection_id),
                       connected |-> conn \ {client},
                       closed |-> IF client \in conn THEN {client} ELSE {}]
                 ELSE [clients |-> c1, connected |-> conn, closed |-> {}]

\* ModbusClientManager(): no entry
PoolEmpty ==
    /\ clients = [k \in {} |-> 0]
    /\ next_client = 0
    /\ next_lock = 0
    /\ connected_clients = {}
    /\ acquires = [k \in Keys |-> 0]
    /\ releases = [k \in Keys |-> 0]
    /\ handed = [k \in Keys |-> {}]
    /\ locks_handed = [k \in Keys |-> {}]
    /\ pool_op = [op |-> "init", key |-> "none", ret |-> 0, closed |-> {}]
    /\ pool_pre = [clients |-> [k \in {} |-> 0], connected |-> {}, next_client |-> 0]

PoolSnapshot ==
    [clients |-> clients, connected |-> connected_clients, next_client |-> next_client]

\* the bookkeeping of an acquire of key k that led to pool r.clients and returned r.ret
Acquired(op, k, r) ==
    /\ r.ret = next_client + 1 => next_client < MaxClients
    /\ k \in DOMAIN clients => acquires[k] < MaxAcquires
    /\ clients' = r.clients
    /\ next_client' = IF r.ret = next_client + 1 THEN next_client + 1 ELSE next_client
    /\ acquires' = [acquires EXCEPT ![k] = IF k \in DOMAIN clients THEN @ + 1 ELSE 1]
    /\ releases' = [releases EXCEPT ![k] = IF k \in DOMAIN clients THEN @ ELSE 0]
    /\ handed' = [handed EXCEPT ![k] = IF k \in DOMAIN clients THEN @ \cup {r.ret} ELSE {r.ret}]
    /\ locks_handed' = [locks_handed EXCEPT ![k] = IF k \in DOMAIN clients THEN @ ELSE {}]
    /\ pool_op' = [op |-> op, key |-> k, ret |-> r.ret, closed |-> {}]
    /\ pool_pre' = PoolSnapshot
    /\ UNCHANGED <<next_lock, connected_clients>>

PoolGetTcp(k) ==
    /\ Acquired("get_tcp_client", k, get_tcp_client(clients, k, next_client + 1))
    /\ UNCHANGED <<cbVars, connVars, ioVars, queueVars, auxVars>>

PoolGetSerial(k) ==
    /\ Acquired("get_serial_client", k, get_serial_client(clients, k, next_client + 1))
    /\ UNCHANGED <<cbVars, connVars, ioVars, queueVars, auxVars>>

\* the bookkeeping of a get_client_lock
LockGot(k, r) ==
    /\ r.ret = next_lock + 1 => next_lock < MaxLocks
    /\ clients' = r.clients
    /\ next_lock' = IF r.ret = next_lock + 1 THEN next_lock + 1 ELSE next_lock
    /\ locks_handed' = [locks_handed EXCEPT ![k] = IF k \in DOMAIN clients THEN @ \cup {r.ret} ELSE @]
    /\ pool_op' = [op |-> "get_client_lock", key |-> k, ret |-> r.ret, closed |-> {}]
    /\ pool_pre' = PoolSnapshot
    /\ UNCHANGED <<next_client, connected_clients, acquires, releases, handed>>

PoolGetLock(k) ==
    /\ LockGot(k, get_client_lock(clients, k, next_lock + 1))
    /\ UNCHANGED <<cbVars, connVars, ioVars, queueVars, auxVars>>

\* the bookkeeping of a release_client
Released(k, r) ==
    /\ clients' = r.clients
    /\ connected_clients' = r.connected
    /\ releases' = [releases EXCEPT ![k] = IF k \in DOMAIN clients THEN @ + 1 ELSE @]
    /\ pool_op' = [op |-> "release_client", key |-> k, ret |-> 0, closed |-> r.closed]
    /\ pool_pre' = PoolSnapshot
    /\ UNCHANGED <<next_client, next_lock, acquires, handed, locks_handed>>

PoolRelease(k) ==
    /\ Released(k, release_client(clients, connected_clients, k))
    /\ UNCHANGED <<cbVars, connVars, ioVars, queueVars, auxVars>>

\* a holder of transport o connects it; the connection of o drops
TransportConnect(o) ==
    /\ o \notin connected_clients
    /\ connected_clients' = connected_clients \cup {o}
    /\ pool_op' = [op |-> "connect", key |-> "none", ret |-> o, closed |-> {}]
    /\ pool_pre' = PoolSnapshot
    /\ UNCHANGED <<clients, next_client, next_lock, acquires, releases, handed, locks_handed>>
    /\ UNCHANGED <<cbVars, connVars, ioVars, queueVars, auxVars>>

TransportDrop(o) ==
    /\ o \in connected_clients
    /\ connected_clients' = connected_clients \ {o}
    /\ pool_op' = [op |-> "drop", key |-> "none", ret |-> o, closed |-> {}]
    /\ pool_pre' = PoolSnapshot
    /\ UNCHANGED <<clients, next_client, next_lock, acquires, releases, handed, locks_handed>>
    /\ UNCHANGED <<cbVars, connVars, ioVars, queueVars, auxVars>>

(***************************************************************************)
(* Controllers sharing pooled transports, and their Modbus transactions    *)
(***************************************************************************)
Ctrls == {"A", "B"}

\* the tasks that talk to a controller's transport: a polling read
\* (async_read_input_register / async_read_holding_register), a write of the
\* write queue (_execute_write_holding_register(s)) and a battery stack read
\* (BatteryController._read_registers)
IoKinds == {"poll", "write", "battery"}

IoIdle ==
    /\ ctl = [c \in Ctrls |-> [built |-> FALSE, key |-> "none", client |-> 0, poll_lock |-> NoLock]]
    /\ io_pc = [c \in Ctrls |-> [k \in IoKinds |-> "idle"]]
    /\ locked = {}

\* what ModbusController.__init__ gets from the manager: the transport of
\* connection_id key, then the lock of that connection_id
controller_init(cl, key, fresh_client, fresh_lock) ==
    LET r1 == IF key \in TcpKeys
                THEN get_tcp_client(cl, key, fresh_client)
                ELSE get_serial_client(cl, key, fresh_client)
        r2 == get_client_lock(r1.clients, key, fresh_lock)
    IN  [clients |-> r2.clients, client |-> r1.ret, poll_lock |-> r2.ret]

\* what the model records for the claims about the pool alone
poolHistory == <<acquires, releases, handed, locks_handed, pool_op, pool_pre>>

\* ModbusController(...) for connection_id key
Build(c, key) ==
    /\ ~ctl[c].built
    /\ LET r == controller_init(clients, key, next_client + 1, next_lock + 1)
       IN  /\ r.client = next_client + 1 => next_client < MaxClients
           /\ r.poll_lock = next_lock + 1 => next_lock < MaxLocks
           /\ clients' = r.clients
           /\ next_client' = IF r.client = next_client + 1 THEN next_client + 1 ELSE next_client
           /\ next_lock' = IF r.poll_lock = next_lock + 1 THEN next_lock + 1 ELSE next_lock
           /\ ctl' = [ctl EXCEPT ![c] = [built |-> TRUE, key |-> key, client |-> r.client,
                                         poll_lock |-> r.poll_lock]]
    /\ UNCHANGED <<connected_clients, poolHistory, io_pc, locked, cbVars, connVars, queueVars, auxVars>>

\* async_unload_entry: the tasks of the controller have been stopped, then
\* close_connection() releases the controller's reference
Close(c) ==
    /\ ctl[c].built
    /\ \A k \in IoKinds : io_pc[c][k] = "idle"
    /\ LET r == release_client(clients, connected_clients, ctl[c].key)
       IN  /\ clients' = r.clients
           /\ connected_clients' = r.connected
    /\ ctl' = [ctl EXCEPT ![c].built = FALSE]
    /\ UNCHANGED <<next_client, next_lock, poolHistory, io_pc, locked, cbVars, connVars, queueVars, auxVars>>

\* close_connection() of a controller that was constructed, whether or not
\* it has been called on it before: it releases connection_id every time
CloseConnection(c) ==
    /\ ctl[c].key # "none"
    /\ \A k \in IoKinds : io_pc[c][k] = "idle"
    /\ LET r == release_client(clients, connected_clients, ctl[c].key)
       IN  /\ clients' = r.clients
           /\ connected_clients' = r.connected
    /\ ctl' = [ctl EXCEPT ![c].built = FALSE]
    /\ UNCHANGED <<next_client, next_lock, poolHistory, io_pc, locked, cbVars, connVars, queueVars, auxVars>>

\* connect() of controller c connects its transport; the connection of
\* transport o drops
IoConnect(c) ==
    /\ ctl[c].built
    /\ ctl[c].client \notin connected_clients
    /\ connected_clients' = connected_clients \cup {ctl[c].client}
    /\ UNCHANGED <<clients, next_client, next_lock, poolHistory, ioVars, cbVars, connVars, queueVars, auxVars>>

IoDrop(o) ==
    /\ o \in connected_clients
    /\ connected_clients' = connected_clients \ {o}
    /\ UNCHANGED <<clients, next_client, next_lock, poolHistory, ioVars, cbVars, connVars, queueVars, auxVars>>

\* the task reaches `async with poll_lock`: it takes the lock if it is free
\* (a battery read then connects the transport if need be, a read or write
\* waits out the inter-frame delay), and waits for it otherwise.
\* A read or write gets here only after connect() returned True.
IoLock(c, k) ==
    /\ ctl[c].built
    /\ io_pc[c][k] \in {"idle", "wait"}
    /\ io_pc[c][k] = "idle" /\ k # "battery" => ctl[c].client \in connected_clients
    /\ IF ctl[c].poll_lock \in locked
         THEN /\ io_pc[c][k] = "idle"
              /\ io_pc' = [io_pc EXCEPT ![c][k] = "wait"]
              /\ UNCHANGED locked
         ELSE /\ locked' = locked \cup {ctl[c].poll_lock}
              /\ io_pc' = [io_pc EXCEPT ![c][k] =
                              IF k # "battery" THEN "ifw"
                              ELSE IF ctl[c].client \in connected_clients THEN "io"
                              ELSE "bconnect"]
    /\ UNCHANGED <<ctl, cbVars, connVars, poolVars, queueVars, auxVars>>

\* the inter-frame delay is over: the read or write goes to the transport
IoIssue(c, k) ==
    /\ io_pc[c][k] = "ifw"
    /\ io_pc' = [io_pc EXCEPT ![c][k] = "io"]
    /\ UNCHANGED <<ctl, locked, cbVars, connVars, poolVars, queueVars, auxVars>>

\* the connect of a battery read ends: it raised (the read returns None), or
\* it returned, having connected or not, and the read goes to the transport
IoBatteryConnect(c, outcome) ==
    /\ io_pc[c]["battery"] = "bconnect"
    /\ IF outcome = "raised"
         THEN /\ io_pc' = [io_pc EXCEPT ![c]["battery"] = "idle"]
              /\ locked' = locked \ {ctl[c].poll_lock}
              /\ UNCHANGED connected_clients
         ELSE /\ io_pc' = [io_pc EXCEPT ![c]["battery"] = "io"]
              /\ connected_clients' = IF outcome = "connected"
                                        THEN connected_clients \cup {ctl[c].client}
                                        ELSE connected_clients
              /\ UNCHANGED locked
    /\ UNCHANGED <<ctl, cbVars, connVars, clients, next_client, next_lock, poolHistory, queueVars, auxVars>>

\* the transaction ends (a response, an error response or an exception), or
\* the task is cancelled while it waits for or holds the lock: `async with`
\* gives the lock back
IoEnd(c, k) ==
    /\ io_pc[c][k] \in {"wait", "ifw", "bconnect", "io"}
    /\ io_pc' = [io_pc EXCEPT ![c][k] = "idle"]
    /\ locked' = IF io_pc[c][k] = "wait" THEN locked ELSE locked \ {ctl[c].poll_lock}
    /\ UNCHANGED <<ctl, cbVars, connVars, poolVars, queueVars, auxVars>>

\* the transactions in flight on transport o
InFlight(o) ==
    {t \in Ctrls \X IoKinds : ctl[t[1]].client = o /\ io_pc[t[1]][t[2]] = "io"}

(***************************************************************************)
(* The write queue: async_write_holding_register(s), process_write_queue   *)
(***************************************************************************)
Callers == 1..MaxWrites

\* no request is being executed
NoReq == [caller |-> 0, multiple |-> FALSE]

\* the consumer and what it reads and writes, as one value
QState ==
    [queue |-> write_queue, future |-> future, pc |-> wq.pc, mode |-> wq.mode,
     cur |-> wq.cur, reader |-> reader_holds, connected |-> client_connected,
     cb |-> circuit_breaker, connect_failures |-> connect_failures,
     transport_connects |-> transport_connects, now |-> now,
     dequeued |-> dequeued, wire |-> wire, completed |-> completed,
     ok |-> write_ok, set_results |-> set_results]

RECURSIVE loop_head(_), drain_head(_), execute(_), finish(_, _)

\* `async with self.poll_lock`: the lock is taken, or waited for
take_lock(st) ==
    IF st.reader THEN [st EXCEPT !.pc = "lock_wait"] ELSE [st EXCEPT !.pc = "ifw"]

\* a plausible slip: set_result without the test of future.done()
finish_unguarded(st, result) ==
    LET s1 == [st EXCEPT !.future[st.cur.caller] = result,
                         !.set_results[st.cur.caller] = @ + 1,
                         !.cur = NoReq]
    IN  IF st.mode = "run" THEN loop_head(s1) ELSE drain_head(s1)

\* _execute_write_holding_register(s) returned result: the future is resolved
\* unless done, task_done(), and the loop the consumer is in goes on
finish(st, result) ==
    LET pending == st.future[st.cur.caller] = "pending"
        s1 == [st EXCEPT !.future[st.cur.caller] = IF pending THEN result ELSE @,
                         !.set_results[st.cur.caller] = IF pending THEN @ + 1 ELSE @,
                         !.cur = NoReq]
    IN  IF st.mode = "run" THEN loop_head(s1) ELSE drain_head(s1)

\* _execute_write_holding_register(s) up to its first suspension: connect(),
\* then the lock
execute(st) ==
    LET r == connect_begin([connected |-> st.connected, cb |-> st.cb,
                            connect_failures |-> st.connect_failures], st.now)
        s1 == [st EXCEPT !.cb = r.cb]
    IN  IF r.outcome = "True" THEN take_lock(s1)
        ELSE IF r.outcome = "False" THEN finish(s1, "None")
        ELSE [s1 EXCEPT !.pc = "connecting", !.transport_connects = @ + 1]

\* the drain loop of the CancelledError handler, from its test on
drain_head(st) ==
    IF st.queue = <<>>
      THEN [st EXCEPT !.pc = "exited"]
      ELSE execute([st EXCEPT !.cur = Head(st.queue), !.queue = Tail(st.queue),
                              !.dequeued = Append(@, Head(st.queue).caller)])

\* a plausible slip: the newest request is taken first
loop_head_lifo(st) ==
    IF ~st.connected
      THEN [st EXCEPT !.pc = "sleep_disc"]
      ELSE IF st.queue = <<>>
        THEN [st EXCEPT !.pc = "sleep_empty"]
        ELSE execute([st EXCEPT !.cur = st.queue[Len(st.queue)],
                                !.queue = SubSeq(st.queue, 1, Len(st.queue) - 1),
                                !.dequeued = Append(@, st.queue[Len(st.queue)].caller)])

\* a plausible slip: the loop takes a request without the test of connected()
loop_head_unconditional(st) ==
    IF st.queue = <<>>
      THEN [st EXCEPT !.pc = "sleep_empty"]
      ELSE execute([st EXCEPT !.cur = Head(st.queue), !.queue = Tail(st.queue),
                              !.dequeued = Append(@, Head(st.queue).caller)])

\* the `while True` loop from its top to the next suspension
loop_head(st) ==
    IF ~st.connected
      THEN [st EXCEPT !.pc = "sleep_disc"]
      ELSE IF st.queue = <<>>
        THEN [st EXCEPT !.pc = "sleep_empty"]
        ELSE execute([st EXCEPT !.cur = Head(st.queue), !.queue = Tail(st.queue),
                                !.dequeued = Append(@, Head(st.queue).caller)])

\* the consumer was started and sleeps; nothing was submitted
QueueIdle ==
    /\ write_queue = <<>>
    /\ future = [c \in Callers |-> "none"]
    /\ wq = [pc |-> "sleep_disc", mode |-> "run", cur |-> NoReq]
    /\ reader_holds = FALSE
    /\ wq_cancels = 0
    /\ submitted = <<>>
    /\ dequeued = <<>>
    /\ wire = <<>>
    /\ completed = 0
    /\ write_ok = {}
    /\ set_results = [c \in Callers |-> 0]
    /\ before_cancel = {}

\* the consumer ran up to st
QApply(st) ==
    /\ st.transport_connects <= MaxConnects
    /\ write_queue' = st.queue
    /\ future' = st.future
    /\ wq' = [pc |-> st.pc, mode |-> st.mode, cur |-> st.cur]
    /\ client_connected' = st.connected
    /\ circuit_breaker' = st.cb
    /\ connect_failures' = st.connect_failures
    /\ transport_connects' = st.transport_connects
    /\ dequeued' = st.dequeued
    /\ wire' = st.wire
    /\ completed' = st.completed
    /\ write_ok' = st.ok
    /\ set_results' = st.set_results
    /\ UNCHANGED <<reader_holds, submitted, now, cb_op, cb_pre, cb_ret, conn_task, ctl_ev,
                   ctl_pre, poolVars, ioVars, auxVars>>

\* async_write_holding_register (multiple = FALSE) or
\* async_write_holding_registers (multiple = TRUE) of caller c, up to `await future`
QSubmit(c, multiple) ==
    /\ future[c] = "none"
    /\ future' = [future EXCEPT ![c] = "pending"]
    /\ write_queue' = Append(write_queue, [caller |-> c, multiple |-> multiple])
    /\ submitted' = Append(submitted, c)
    /\ UNCHANGED <<wq, reader_holds, wq_cancels, dequeued, wire, completed, write_ok, set_results, before_cancel,
                   cbVars, connVars, poolVars, ioVars, auxVars>>

\* the caller awaiting its future is cancelled: so is the future
QCallerCancel(c) ==
    /\ future[c] = "pending"
    /\ future' = [future EXCEPT ![c] = "cancelled"]
    /\ UNCHANGED <<write_queue, wq, reader_holds, wq_cancels, submitted, dequeued, wire,
                   completed, write_ok, set_results, before_cancel,
                   cbVars, connVars, poolVars, ioVars, auxVars>>

\* the consumer's sleep is over
QWake ==
    /\ wq.pc \in {"sleep_disc", "sleep_empty"}
    /\ QApply(loop_head(QState))
    /\ UNCHANGED <<wq_cancels, before_cancel>>

\* the transport's connect() called by connect() for a write ends
QConnectDone(established, raised) ==
    /\ wq.pc = "connecting"
    /\ raised # "CancelledError"
    /\ established => raised = "none"
    /\ LET conn == client_connected \/ established
           r == connect_end([Controller EXCEPT !.connected = conn], now, raised)
           s1 == [QState EXCEPT !.connected = conn, !.cb = r.cb,
                                !.connect_failures = r.connect_failures]
       IN  QApply(IF r.ret = "True" THEN take_lock(s1) ELSE finish(s1, "None"))
    /\ UNCHANGED <<wq_cancels, before_cancel>>

\* the lock the consumer waits for is free
QLockGranted ==
    /\ wq.pc = "lock_wait"
    /\ ~reader_holds
    /\ QApply([QState EXCEPT !.pc = "ifw"])
    /\ UNCHANGED <<wq_cancels, before_cancel>>

\* the inter-frame delay is over: the write goes to the transport, unless
\* int(value) raises for a single write (the write then returns None)
QIssue(convertible) ==
    /\ wq.pc = "ifw"
    /\ wq.cur.multiple => convertible
    /\ QApply(IF convertible
                THEN [QState EXCEPT !.pc = "io", !.wire = Append(@, wq.cur.caller)]
                ELSE finish(QState, "None"))
    /\ UNCHANGED <<wq_cancels, before_cancel>>

WriteOutcomes == {"ok", "isError", "ConnectionException", "ModbusException", "Exception"}

\* the transport's write ends; the write returns the response if it is no
\* error response, None otherwise
QIoDone(outcome) ==
    /\ wq.pc = "io"
    /\ QApply(finish([QState EXCEPT !.completed = @ + 1,
                                     !.ok = IF outcome = "ok" THEN @ \cup {wq.cur.caller} ELSE @],
                     IF outcome = "ok" THEN "result" ELSE "None"))
    /\ UNCHANGED <<wq_cancels, before_cancel>>

\* task.cancel(): CancelledError is raised where the consumer is suspended.
\* In the loop it is caught and the drain loop runs; in the drain loop it
\* leaves process_write_queue. The write it interrupts is abandoned and
\* `async with` gives the lock back.
QCancel ==
    /\ wq.pc # "exited"
    /\ wq_cancels < MaxCancels
    /\ wq_cancels' = wq_cancels + 1
    /\ before_cancel' = IF wq_cancels = 0 THEN {c \in Callers : future[c] # "none"}
                        ELSE before_cancel
    /\ LET s1 == [QState EXCEPT !.cur = NoReq,
                                !.completed = IF wq.pc = "io" THEN @ + 1 ELSE @]
       IN  QApply(IF wq.mode = "run"
                    THEN drain_head([s1 EXCEPT !.mode = "drain"])
                    ELSE [s1 EXCEPT !.pc = "exited"])

\* a polling read takes and gives back poll_lock
QReaderLock ==
    /\ ~reader_holds
    /\ wq.pc \notin {"ifw", "io"}
    /\ reader_holds' = TRUE
    /\ UNCHANGED <<write_queue, future, wq, wq_cancels, submitted, dequeued, wire,
                   completed, write_ok, set_results, before_cancel, cbVars, connVars, poolVars, ioVars, auxVars>>

QReaderUnlock ==
    /\ reader_holds
    /\ reader_holds' = FALSE
    /\ UNCHANGED <<write_queue, future, wq, wq_cancels, submitted, dequeued, wire,
                   completed, write_ok, set_results, before_cancel, cbVars, connVars, poolVars, ioVars, auxVars>>

\* connect() of a polling read connected the transport
QConnected ==
    /\ ~client_connected
    /\ client_connected' = TRUE
    /\ connect_failures' = 0
    /\ circuit_breaker' = record_success(circuit_breaker)
    /\ UNCHANGED <<now, cb_op, cb_pre, cb_ret, conn_task, transport_connects, ctl_ev,
                   ctl_pre, poolVars, ioVars, queueVars, auxVars>>

\* the connection drops
QConnectionLost ==
    /\ client_connected
    /\ ~conn_stable
    /\ client_connected' = FALSE
    /\ UNCHANGED <<connect_failures, conn_task, transport_connects, ctl_ev, ctl_pre,
                   cbVars, poolVars, ioVars, queueVars, auxVars>>

(***************************************************************************)
(* RegisterCache (helpers.py)                                              *)
(***************************************************************************)
\* the first register address used
RegBase == 5000
Registers == RegBase..(RegBase + MaxRegs - 1)
\* f"{connection_id}_{device_id}" of the devices 1 and 10 on one connection;
\* the second device caches one register, with one value
ControllerKeys == {"10.0.0.5:502_1", "10.0.0.5:502_10"}
RegistersOf(k) == IF k = "10.0.0.5:502_1" THEN Registers ELSE {RegBase}
CacheValues == {100, 200}
ValuesOf(k) == IF k = "10.0.0.5:502_1" THEN CacheValues ELSE {100}
Ttls == {0, 1}
\* the counts n for which start..start+n-1 are registers in use
Counts(start) == 1..(RegBase + MaxRegs - start)
CountsOf(k, start) == {n \in Counts(start) : start + n - 1 \in RegistersOf(k)}

\* f"{controller_key}:{register}"
make_key(controller_key, register) == controller_key \o ":" \o ToString(register)

\* a plausible slip: an entry is still served at the instant it expires
get_late(c, t, controller_key, register) ==
    LET key == make_key(controller_key, register)
    IN  IF key \notin DOMAIN c
          THEN [cache |-> c, hit |-> FALSE, value |-> 0]
          ELSE IF t > c[key].expires_at
            THEN [cache |-> Without(c, key), hit |-> FALSE, value |-> 0]
            ELSE [cache |-> c, hit |-> TRUE, value |-> c[key].value]

\* RegisterCache.get at time t: hit = FALSE stands for the result None
get(c, t, controller_key, register) ==
    LET key == make_key(controller_key, register)
    IN  IF key \notin DOMAIN c
          THEN [cache |-> c, hit |-> FALSE, value |-> 0]
          ELSE IF t >= c[key].expires_at
            THEN [cache |-> Without(c, key), hit |-> FALSE, value |-> 0]
            ELSE [cache |-> c, hit |-> TRUE, value |-> c[key].value]

\* a plausible slip: a set sweeps out the entries that have expired
set_sweeping(c, t, controller_key, register, value, ttl_seconds) ==
    LET key == make_key(controller_key, register)
        live == {k \in DOMAIN c : t < c[k].expires_at}
    IN  [k \in live \cup {key} |->
            IF k = key THEN [value |-> value, expires_at |-> t + ttl_seconds] ELSE c[k]]

\* RegisterCache.set at time t
set(c, t, controller_key, register, value, ttl_seconds) ==
    LET key == make_key(controller_key, register)
    IN  [k \in DOMAIN c \cup {key} |->
            IF k = key THEN [value |-> value, expires_at |-> t + ttl_seconds] ELSE c[k]]

\* the loop of is_range_cached and get_range from offset on: the first
\* missing member ends it, the first expired member is deleted and ends it
RECURSIVE range_scan(_, _, _, _, _, _, _)
range_scan(c, t, controller_key, start_register, count, offset, values) ==
    LET key == make_key(controller_key, start_register + offset)
    IN  IF offset >= count
          THEN [cache |-> c, hit |-> TRUE, values |-> values]
          ELSE IF key \notin DOMAIN c
            THEN [cache |-> c, hit |-> FALSE, values |-> <<>>]
            ELSE IF t >= c[key].expires_at
              THEN [cache |-> Without(c, key), hit |-> FALSE, values |-> <<>>]
              ELSE range_scan(c, t, controller_key, start_register, count, offset + 1,
                              Append(values, c[key].value))

\* RegisterCache.is_range_cached: hit is the result
is_range_cached(c, t, controller_key, start_register, count) ==
    range_scan(c, t, controller_key, start_register, count, 0, <<>>)

\* RegisterCache.get_range: hit = FALSE stands for the result None
get_range(c, t, controller_key, start_register, count) ==
    range_scan(c, t, controller_key, start_register, count, 0, <<>>)

\* RegisterCache.set_range
RECURSIVE set_range(_, _, _, _, _, _)
set_range(c, t, controller_key, start_register, values, ttl_seconds) ==
    IF values = <<>>
      THEN c
      ELSE set_range(set(c, t, controller_key, start_register, Head(values), ttl_seconds),
                     t, controller_key, start_register + 1, Tail(values), ttl_seconds)

\* RegisterCache.invalidate
invalidate(c, controller_key, register) == Without(c, make_key(controller_key, register))

\* RegisterCache.invalidate_range
RECURSIVE invalidate_range(_, _, _, _)
invalidate_range(c, controller_key, start_register, count) ==
    IF count <= 0
      THEN c
      ELSE invalidate_range(invalidate(c, controller_key, start_register), controller_key,
                            start_register + 1, count - 1)

\* k.startswith(prefix)
startswith(k, prefix) ==
    Len(k) >= Len(prefix) /\ SubSeq(k, 1, Len(prefix)) = prefix

\* a plausible slip: the prefix is the controller key without the colon
clear_bare_prefix(c, given, controller_key) ==
    IF ~given
      THEN <<>>
      ELSE LET keys_to_remove == {k \in DOMAIN c : startswith(k, controller_key)}
           IN  [k \in DOMAIN c \ keys_to_remove |-> c[k]]

\* RegisterCache.clear; given = FALSE stands for controller_key = None
clear(c, given, controller_key) ==
    IF ~given
      THEN <<>>
      ELSE LET prefix == controller_key \o ":"
               keys_to_remove == {k \in DOMAIN c : startswith(k, prefix)}
           IN  [k \in DOMAIN c \ keys_to_remove |-> c[k]]

\* RegisterCache.stats at time t
stats(c, t) ==
    [total_entries |-> Cardinality(DOMAIN c),
     expired_entries |-> Cardinality({k \in DOMAIN c : t >= c[k].expires_at})]

NoCall == [op |-> "none", key |-> "", register |-> 0, count |-> 0, value |-> 0, ttl |-> 0,
           at |-> 0, hit |-> FALSE, values |-> <<>>,
           stats |-> [total_entries |-> 0, expired_entries |-> 0]]

\* RegisterCache.__init__
CacheEmpty ==
    /\ cache = <<>>
    /\ monotonic = 0
    /\ cache_op = NoCall
    /\ cache_pre = <<>>

cacheOthers == <<cbVars, connVars, poolVars, ioVars, queueVars, schedVars, detectVars, opVars, frameVars, threadVars, spikeVars, onceVars, moduleVars, numVars, selVars, liveVars, driftVars, writeVars>>

\* the call `call` changed the cache to c
Called(c, call) ==
    /\ cache' = c
    /\ cache_pre' = cache
    /\ cache_op' = [call EXCEPT !.at = monotonic]
    /\ UNCHANGED <<monotonic, cacheOthers>>

CacheGet(k, reg) ==
    LET r == get(cache, monotonic, k, reg)
    IN  Called(r.cache, [NoCall EXCEPT !.op = "get", !.key = k, !.register = reg,
                                       !.hit = r.hit, !.value = r.value])

CacheSet(k, reg, v, ttl) ==
    Called(set(cache, monotonic, k, reg, v, ttl),
           [NoCall EXCEPT !.op = "set", !.key = k, !.register = reg, !.value = v, !.ttl = ttl])

CacheIsRangeCached(k, reg, n) ==
    LET r == is_range_cached(cache, monotonic, k, reg, n)
    IN  Called(r.cache, [NoCall EXCEPT !.op = "is_range_cached", !.key = k, !.register = reg,
                                       !.count = n, !.hit = r.hit])

CacheGetRange(k, reg, n) ==
    LET r == get_range(cache, monotonic, k, reg, n)
    IN  Called(r.cache, [NoCall EXCEPT !.op = "get_range", !.key = k, !.register = reg,
                                       !.count = n, !.hit = r.hit, !.values = r.values])

\* set_range with the values v, w, v, ...
CacheSetRange(k, reg, n, v, ttl) ==
    Called(set_range(cache, monotonic, k, reg,
                     [i \in 1..n |-> IF i % 2 = 1 THEN v
                                     ELSE CHOOSE w \in CacheValues : w # v], ttl),
           [NoCall EXCEPT !.op = "set_range", !.key = k, !.register = reg, !.count = n,
                          !.value = v, !.ttl = ttl])

CacheInvalidate(k, reg) ==
    Called(invalidate(cache, k, reg),
           [NoCall EXCEPT !.op = "invalidate", !.key = k, !.register = reg])

CacheInvalidateRange(k, reg, n) ==
    Called(invalidate_range(cache, k, reg, n),
           [NoCall EXCEPT !.op = "invalidate_range", !.key = k, !.register = reg, !.count = n])

\* clear(controller_key), and clear() when given is FALSE
CacheClear(given, k) ==
    Called(clear(cache, given, k),
           [NoCall EXCEPT !.op = "clear", !.key = k, !.hit = given])

CacheStats ==
    Called(cache, [NoCall EXCEPT !.op = "stats", !.stats = stats(cache, monotonic)])

\* time.monotonic() advances
CacheTick ==
    /\ monotonic < MaxMono
    /\ monotonic' = monotonic + 1
    /\ cache_op' = [NoCall EXCEPT !.op = "tick", !.at = monotonic']
    /\ cache_pre' = cache
    /\ UNCHANGED <<cache, cacheOthers>>


(***************************************************************************)
(* The polling scheduler: DataRetrieval.get_modbus_updates                 *)
(***************************************************************************)
Tiers == {"FAST", "NORMAL"}
\* register groups; two of them start at the same register
SensorGroups ==
    {[start_register |-> 1000, registrar_count |-> 10],
     [start_register |-> 1000, registrar_count |-> 5],
     [start_register |-> 2000, registrar_count |-> 10]}
\* the group lists a tick polls
GroupSets == {gs \in SUBSET SensorGroups : Cardinality(gs) \in {1, 2}}
PollCalls == 1..MaxPolls

\* the dedup key: frozenset({g.start_register for g in groups})
group_hash(groups) == {g.start_register : g \in groups}

\* a plausible slip: the flag is looked up under another tier
is_updating_across(pu, tier, key) == key \in pu[CHOOSE t \in Tiers : t # tier]

\* a poll with this key is in flight on this tier
is_updating(pu, tier, key) == key \in pu[tier]

NoGroup == [start_register |-> 0, registrar_count |-> 0]
\* dup and alias are notes taken at the call: a poll of the same tier and key
\* was in flight; and it was for other groups than this call's
NoPoll == [pc |-> "idle", tier |-> "FAST", groups |-> {}, todo |-> {}, cur |-> NoGroup,
           reads |-> 0, dup |-> FALSE, alias |-> FALSE]

\* a poll that got past the dedup test and has not finished
Polling(p) == poll[p].pc \in {"groups", "read"}

SchedIdle ==
    /\ poll_updating = [t \in Tiers |-> {}]
    /\ poll = [p \in PollCalls |-> NoPoll]

schedOthers == <<cbVars, connVars, poolVars, ioVars, queueVars, cacheVars, detectVars, opVars, frameVars, threadVars, spikeVars, onceVars, moduleVars, numVars, selVars, liveVars, driftVars, writeVars>>

\* get_modbus_updates(groups, tier) up to its first read: nothing happens
\* when the controller is disabled or not connected (usable = FALSE) or a
\* poll with the same key is in flight; dup notes whether one is
SchedCall(p, groups, tier, usable) ==
    /\ poll[p].pc = "idle"
    /\ groups # {}
    /\ LET key == group_hash(groups)
           dup == \E q \in PollCalls \ {p} :
                     Polling(q) /\ poll[q].tier = tier /\ group_hash(poll[q].groups) = key
           alias == \E q \in PollCalls \ {p} :
                     /\ Polling(q) /\ poll[q].tier = tier
                     /\ group_hash(poll[q].groups) = key /\ poll[q].groups # groups
           call == [NoPoll EXCEPT !.dup = dup, !.alias = alias]
       IN  IF ~usable \/ is_updating(poll_updating, tier, key)
             THEN /\ poll' = [poll EXCEPT ![p] = call]
                  /\ UNCHANGED poll_updating
             ELSE /\ poll' = [poll EXCEPT ![p] = [call EXCEPT !.pc = "groups", !.tier = tier,
                                                              !.groups = groups, !.todo = groups]]
                  /\ poll_updating' = [poll_updating EXCEPT ![tier] = @ \cup {key}]
    /\ UNCHANGED <<cacheVars, schedOthers>>

\* the next group: its range is served by the cache, or a read is issued
SchedGroup(p, g, cached) ==
    /\ poll[p].pc = "groups"
    /\ g \in poll[p].todo
    /\ poll' = [poll EXCEPT ![p] =
                  IF cached THEN [@ EXCEPT !.todo = @ \ {g}]
                  ELSE [@ EXCEPT !.pc = "read", !.cur = g, !.reads = @ + 1]]
    /\ UNCHANGED <<poll_updating, cacheVars, schedOthers>>

\* the read of the current group ends
SchedReadDone(p) ==
    /\ poll[p].pc = "read"
    /\ poll' = [poll EXCEPT ![p] = [@ EXCEPT !.pc = "groups", !.cur = NoGroup,
                                              !.todo = @ \ {poll[p].cur}]]
    /\ UNCHANGED <<poll_updating, cacheVars, schedOthers>>

\* all groups are done: the poll is no longer in flight
SchedFinish(p) ==
    /\ poll[p].pc = "groups"
    /\ poll[p].todo = {}
    /\ poll' = [poll EXCEPT ![p] = NoPoll]
    /\ poll_updating' = [poll_updating EXCEPT ![poll[p].tier] = @ \ {group_hash(poll[p].groups)}]
    /\ UNCHANGED <<cacheVars, schedOthers>>


(***************************************************************************)
(* detect_battery_stacks (battery_controller.py)                           *)
(***************************************************************************)
BATTERY_SLAVE_BASE == 200
MAX_BATTERY_STACKS == 4
MAX_MODULES == 8
Slaves == BATTERY_SLAVE_BASE..(BATTERY_SLAVE_BASE + MAX_BATTERY_STACKS - 1)

\* what _read_registers gives: a list of registers, an empty list, or None
\* (error response, failed connect, exception)
ReadResults == {"registers", "empty", "None"}

\* BatteryController.__init__: the slave id of a stack
slave_id(stack_index) == BATTERY_SLAVE_BASE + stack_index

\* BatteryController.probe: result is not None and len(result) > 0
probe(result) == result = "registers"

\* the `for stack_idx in range(MAX_BATTERY_STACKS)` loop goes to its next round
next_stack(d) ==
    IF d.stack_idx + 1 < MAX_BATTERY_STACKS
      THEN [d EXCEPT !.pc = "probe", !.stack_idx = @ + 1, !.module_idx = 0]
      ELSE [d EXCEPT !.pc = "done"]

\* a plausible slip: a stack that does not answer is skipped
after_probe_skip(d, found) ==
    LET d1 == [d EXCEPT !.probes = Append(@, found)]
    IN  IF found THEN [d1 EXCEPT !.pc = "serial"] ELSE next_stack(d1)

\* detect_battery_stacks after `await controller.probe()`
after_probe(d, found) ==
    LET d1 == [d EXCEPT !.probes = Append(@, found)]
    IN  IF found THEN [d1 EXCEPT !.pc = "serial"] ELSE [d1 EXCEPT !.pc = "done"]

\* read_module_serials after the read of one module: a read that fails goes
\* on with the next module, an empty serial ends the loop; after the loop
\* the controller is appended to detected
after_module(d, result, blank) ==
    IF (result = "registers" /\ blank) \/ d.module_idx + 1 >= MAX_MODULES
      THEN next_stack([d EXCEPT !.detected = Append(@, slave_id(d.stack_idx))])
      ELSE [d EXCEPT !.module_idx = @ + 1]

DetectIdle ==
    /\ detect = [pc |-> "probe", stack_idx |-> 0, module_idx |-> 0, detected |-> <<>>,
                 probes |-> <<>>]
    /\ battery_reads = [sl \in Slaves |-> 0]

detectOthers == <<cbVars, connVars, poolVars, ioVars, queueVars, cacheVars, schedVars, opVars, frameVars, threadVars, spikeVars, onceVars, moduleVars, numVars, selVars, liveVars, driftVars, writeVars>>

\* one _read_registers of the current stack's controller
ReadIssued ==
    /\ battery_reads' = [battery_reads EXCEPT ![slave_id(detect.stack_idx)] = @ + 1]
    /\ UNCHANGED detectOthers

DetectProbe(result) ==
    /\ detect.pc = "probe"
    /\ detect' = after_probe(detect, probe(result))
    /\ ReadIssued

\* read_serial_and_firmware: two reads, whatever they give
DetectSerial(result) ==
    /\ detect.pc = "serial"
    /\ detect' = [detect EXCEPT !.pc = "firmware"]
    /\ ReadIssued

DetectFirmware(result) ==
    /\ detect.pc = "firmware"
    /\ detect' = [detect EXCEPT !.pc = "modules"]
    /\ ReadIssued

\* blank: the registers decode to an empty serial number
DetectModule(result, blank) ==
    /\ detect.pc = "modules"
    /\ detect' = after_module(detect, result, blank)
    /\ ReadIssued


(***************************************************************************)
(* The operations of one controller: connect(), async_read_input_register, *)
(* async_read_holding_register and the execution of a write, each run by a *)
(* task that can be cancelled wherever it is suspended                     *)
(***************************************************************************)
INTER_FRAME_DELAY_READ_MS == 50
INTER_FRAME_DELAY_WRITE_MS == 100

OpTasks == {"o1", "o2"}
OpKinds == {"connect", "read_input", "read_holding", "write"}
Raised == {"ConnectionException", "ModbusException", "Exception"}

\* a plausible slip: the write delay is never selected
sleep_time_read_only(is_write, current_time, last) ==
    LET delay_ms == INTER_FRAME_DELAY_READ_MS
        elapsed_ms == current_time - last
    IN  IF elapsed_ms < delay_ms THEN delay_ms - elapsed_ms ELSE 0

\* inter_frame_wait: how long it sleeps, in ms, when called at current_time
\* with self._last_modbus_request = last
sleep_time(is_write, current_time, last) ==
    LET delay_ms == IF is_write THEN INTER_FRAME_DELAY_WRITE_MS
                                ELSE INTER_FRAME_DELAY_READ_MS
        elapsed_ms == current_time - last
    IN  IF elapsed_ms < delay_ms THEN delay_ms - elapsed_ms ELSE 0

\* a plausible slip: CancelledError falls into the handlers of the errors
on_raise_swallow(kind, exc) ==
    IF kind = "connect" THEN "False" ELSE "None"

\* the except clauses of an operation: what the caller gets when exc is
\* raised inside it
on_raise(kind, exc) ==
    IF exc = "CancelledError"
      THEN "CancelledError"
      ELSE IF kind = "connect" THEN "False" ELSE "None"

\* what a read or a write returns when connect() returned ret
not_connected(kind, ret) ==
    IF kind = "connect" THEN ret ELSE "None"

\* the last step was neither the start of a transport call nor a cancellation
NoEv == [kind |-> "none", task |-> "none", op |-> "none", from |-> "idle",
         ret |-> "none", at |-> 0, prev |-> 0, untouched |-> TRUE, stamp |-> 0]

\* a plausible slip: the success time is stamped before the isError test
io_done_stamp_first(kind, outcome, t, last_success) ==
    IF outcome \in {"ok", "isError"}
      THEN [ret |-> IF outcome = "ok" THEN "result" ELSE "None",
            last_modbus_success |-> IF kind = "write" THEN last_success ELSE t]
      ELSE [ret |-> on_raise(kind, outcome), last_modbus_success |-> last_success]

\* a read or a write from the return of its transport call on, at time t:
\* a response, an error response (isError), or an exception
io_done(kind, outcome, t, last_success) ==
    IF outcome = "ok"
      THEN [ret |-> "result",
            last_modbus_success |-> IF kind = "write" THEN last_success ELSE t]
      ELSE IF outcome = "isError"
        THEN [ret |-> "None", last_modbus_success |-> last_success]
        ELSE [ret |-> on_raise(kind, outcome), last_modbus_success |-> last_success]

NoOp == [kind |-> "none", pc |-> "idle", ret |-> "none", wake |-> 0]

OpIdle ==
    /\ op_task = [t \in OpTasks |-> NoOp]
    /\ op_lock = "none"
    /\ last_modbus_request = 0
    /\ perf = 0
    /\ last_modbus_success = 0
    /\ op_ev = NoEv

opOthers == <<now, cb_op, cb_pre, cb_ret, conn_task, ctl_ev, ctl_pre, poolVars, ioVars,
              queueVars, cacheVars, schedVars, detectVars, frameVars, threadVars, spikeVars, onceVars, moduleVars, numVars, selVars, liveVars, driftVars, writeVars>>

\* task t, connected, reaches `async with self.poll_lock`; when the lock is
\* free it goes on into inter_frame_wait, which sleeps or returns at once
OpEnter(t, kind) ==
    LET s == sleep_time(kind = "write", perf, last_modbus_request)
        pc == IF kind = "connect" THEN "done"
              ELSE IF op_lock # "none" THEN "lock_wait"
              ELSE IF s > 0 THEN "sleep" ELSE "io"
    IN  /\ op_task' = [op_task EXCEPT ![t] =
                          [kind |-> kind, pc |-> pc,
                           ret |-> IF kind = "connect" THEN "True" ELSE "none",
                           wake |-> IF pc = "sleep" THEN perf + s ELSE 0]]
        /\ op_lock' = IF pc \in {"sleep", "io"} THEN t ELSE op_lock
        /\ last_modbus_request' = IF pc = "io" THEN perf ELSE last_modbus_request
        /\ op_ev' = IF pc = "io"
                      THEN [kind |-> "start", task |-> t, op |-> kind, from |-> "enter",
                            ret |-> "none", at |-> perf, prev |-> last_modbus_request,
                            untouched |-> TRUE, stamp |-> last_modbus_success]
                      ELSE NoEv

\* task t leaves its operation without having reached the lock
OpLeave(t, kind, ret) ==
    /\ op_task' = [op_task EXCEPT ![t] = [kind |-> kind, pc |-> "done", ret |-> ret, wake |-> 0]]
    /\ op_ev' = NoEv
    /\ UNCHANGED <<op_lock, last_modbus_request>>

\* task t calls an operation: connect() runs up to its first await or to its
\* return, and on True the operation goes on to the lock
OpCall(t, kind) ==
    /\ op_task[t].pc \in {"idle", "done"}
    /\ LET r == connect_begin(Controller, now)
       IN  /\ circuit_breaker' = r.cb
           /\ r.outcome = "await" => transport_connects < MaxOpConnects
           /\ transport_connects' = IF r.outcome = "await" THEN transport_connects + 1
                                                           ELSE transport_connects
           /\ IF r.outcome = "True"
                THEN OpEnter(t, kind)
                ELSE IF r.outcome = "await"
                  THEN /\ op_task' = [op_task EXCEPT ![t] =
                                         [kind |-> kind, pc |-> "connecting",
                                          ret |-> "none", wake |-> 0]]
                       /\ op_ev' = NoEv
                       /\ UNCHANGED <<op_lock, last_modbus_request>>
                  ELSE OpLeave(t, kind, not_connected(kind, r.outcome))
    /\ UNCHANGED <<client_connected, connect_failures, perf, last_modbus_success, opOthers>>

\* the transport's connect() of task t ends without a cancellation
OpConnectDone(t, established, raised) ==
    /\ op_task[t].pc = "connecting"
    /\ established => raised = "none"
    /\ client_connected' = (client_connected \/ established)
    /\ LET r == connect_end([Controller EXCEPT !.connected = client_connected'], now, raised)
       IN  /\ circuit_breaker' = r.cb
           /\ connect_failures' = r.connect_failures
           /\ IF r.ret = "True"
                THEN OpEnter(t, op_task[t].kind)
                ELSE OpLeave(t, op_task[t].kind, not_connected(op_task[t].kind, r.ret))
    /\ UNCHANGED <<transport_connects, perf, last_modbus_success, opOthers>>

\* the lock is granted to a waiting task
OpLockGranted(t) ==
    /\ op_task[t].pc = "lock_wait"
    /\ op_lock = "none"
    /\ OpEnter(t, op_task[t].kind)
    /\ UNCHANGED <<circuit_breaker, client_connected, connect_failures, transport_connects,
                   perf, last_modbus_success, opOthers>>

\* asyncio.sleep of inter_frame_wait is over: the request time is recorded and
\* the transport call starts
OpSleepDone(t) ==
    /\ op_task[t].pc = "sleep"
    /\ perf >= op_task[t].wake
    /\ op_task' = [op_task EXCEPT ![t] = [@ EXCEPT !.pc = "io", !.wake = 0]]
    /\ last_modbus_request' = perf
    /\ op_ev' = [kind |-> "start", task |-> t, op |-> op_task[t].kind, from |-> "sleep",
                 ret |-> "none", at |-> perf, prev |-> last_modbus_request,
                 untouched |-> TRUE, stamp |-> last_modbus_success]
    /\ UNCHANGED <<op_lock, circuit_breaker, client_connected, connect_failures,
                   transport_connects, perf, last_modbus_success, opOthers>>

\* the transport call returns a response, an error response, or raises
OpIoDone(t, outcome) ==
    /\ op_task[t].pc = "io"
    /\ LET r == io_done(op_task[t].kind, outcome, perf, last_modbus_success)
       IN  /\ op_task' = [op_task EXCEPT ![t] = [@ EXCEPT !.pc = "done", !.ret = r.ret]]
           /\ last_modbus_success' = r.last_modbus_success
           /\ op_ev' = [kind |-> "io_done", task |-> t, op |-> op_task[t].kind,
                        from |-> outcome, ret |-> r.ret, at |-> perf,
                        prev |-> last_modbus_request, untouched |-> TRUE,
                        stamp |-> last_modbus_success]
    /\ op_lock' = "none"
    /\ UNCHANGED <<last_modbus_request, circuit_breaker, client_connected,
                   connect_failures, transport_connects, perf, opOthers>>

\* task t is cancelled while suspended in its operation: CancelledError is
\* raised at the await, the lock is released on the way out
OpCancel(t) ==
    /\ op_task[t].pc \in {"connecting", "lock_wait", "sleep", "io"}
    /\ LET r == IF op_task[t].pc = "connecting"
                  THEN connect_end(Controller, now, "CancelledError")
                  ELSE [ret |-> "CancelledError", cb |-> circuit_breaker,
                        connect_failures |-> connect_failures]
           ret == IF op_task[t].kind = "connect" THEN r.ret
                  ELSE IF r.ret = "CancelledError" THEN on_raise(op_task[t].kind, r.ret)
                  ELSE not_connected(op_task[t].kind, r.ret)
       IN  /\ circuit_breaker' = r.cb
           /\ connect_failures' = r.connect_failures
           /\ op_task' = [op_task EXCEPT ![t] = [@ EXCEPT !.pc = "done", !.ret = ret, !.wake = 0]]
           /\ op_ev' = [kind |-> "cancelled", task |-> t, op |-> op_task[t].kind,
                        from |-> op_task[t].pc, ret |-> ret, at |-> perf,
                        prev |-> last_modbus_request,
                        untouched |-> /\ r.cb = circuit_breaker
                                      /\ r.connect_failures = connect_failures,
                        stamp |-> last_modbus_success]
    /\ op_lock' = IF op_lock = t THEN "none" ELSE op_lock
    /\ UNCHANGED <<last_modbus_request, client_connected, transport_connects, perf, last_modbus_success, opOthers>>

\* time.perf_counter() advances
OpTick ==
    /\ perf < MaxTicks * ClockStep
    /\ perf' = perf + ClockStep
    /\ op_ev' = NoEv
    /\ UNCHANGED <<op_task, op_lock, last_modbus_request, circuit_breaker,
                   client_connected, connect_failures, transport_connects,
                   last_modbus_success, opOthers>>

\* the connection drops
OpConnectionLost ==
    /\ client_connected
    /\ client_connected' = FALSE
    /\ op_ev' = NoEv
    /\ UNCHANGED <<op_task, op_lock, last_modbus_request, perf, circuit_breaker,
                   connect_failures, transport_connects, last_modbus_success, opOthers>>

(***************************************************************************)
(* One transport used by two controllers of the same connection identity   *)
(* and by the battery stack reads of the first: who waits out which delay  *)
(***************************************************************************)
FrameCtrls == {"inv1", "inv2"}
Actors == FrameCtrls \cup {"battery"}

NoFrameEv == [kind |-> "none", actor |-> "none", write |-> FALSE, at |-> 0, prev |-> NoTime]

FrameIdle ==
    /\ frame_pc = [a \in Actors |-> "idle"]
    /\ frame_write = [a \in Actors |-> FALSE]
    /\ frame_lock = "none"
    /\ frame_last = [c \in FrameCtrls |-> 0]
    /\ frame_wake = [c \in FrameCtrls |-> 0]
    /\ wire_last = NoTime
    /\ frame_ev = NoFrameEv

frameOthers == <<cbVars, connVars, poolVars, ioVars, queueVars, cacheVars, schedVars,
                 detectVars, op_task, op_lock, last_modbus_request, last_modbus_success, op_ev, threadVars, spikeVars, onceVars, moduleVars, numVars, selVars, liveVars, driftVars, writeVars>>

\* the time to sleep of actor a, holding the lock, before its transport call:
\* a controller calls its own inter_frame_wait, BatteryController._read_registers
\* calls none
frame_sleep(a, is_write, current_time, last) ==
    IF a \in FrameCtrls THEN sleep_time(is_write, current_time, last[a]) ELSE 0

\* the transport call of actor a starts now; a controller has just recorded
\* the time in its own _last_modbus_request
FrStart(a, is_write) ==
    /\ frame_last' = IF a \in FrameCtrls THEN [frame_last EXCEPT ![a] = perf] ELSE frame_last
    /\ wire_last' = perf
    /\ frame_ev' = [kind |-> "start", actor |-> a, write |-> is_write, at |-> perf,
                    prev |-> wire_last]

\* actor a reaches `async with poll_lock` for a read or (a controller) a write
FrLock(a, is_write) ==
    /\ frame_pc[a] \in {"idle", "wait"}
    /\ is_write => a \in FrameCtrls
    /\ frame_pc[a] = "wait" => is_write = frame_write[a]
    /\ frame_write' = [frame_write EXCEPT ![a] = is_write]
    /\ IF frame_lock # "none"
         THEN /\ frame_pc[a] = "idle"
              /\ frame_pc' = [frame_pc EXCEPT ![a] = "wait"]
              /\ frame_ev' = NoFrameEv
              /\ UNCHANGED <<frame_lock, frame_last, frame_wake, wire_last>>
         ELSE LET s == frame_sleep(a, is_write, perf, frame_last)
              IN  /\ frame_lock' = a
                  /\ IF s > 0
                       THEN /\ frame_pc' = [frame_pc EXCEPT ![a] = "sleep"]
                            /\ frame_wake' = [frame_wake EXCEPT ![a] = perf + s]
                            /\ frame_ev' = NoFrameEv
                            /\ UNCHANGED <<frame_last, wire_last>>
                       ELSE /\ frame_pc' = [frame_pc EXCEPT ![a] = "io"]
                            /\ FrStart(a, is_write)
                            /\ UNCHANGED frame_wake
    /\ UNCHANGED <<perf, frameOthers>>

\* the sleep of inter_frame_wait is over
FrSleepDone(a) ==
    /\ frame_pc[a] = "sleep"
    /\ perf >= frame_wake[a]
    /\ frame_pc' = [frame_pc EXCEPT ![a] = "io"]
    /\ frame_wake' = [frame_wake EXCEPT ![a] = 0]
    /\ FrStart(a, frame_write[a])
    /\ UNCHANGED <<frame_write, frame_lock, perf, frameOthers>>

\* the transport call ends, the lock is given back
FrEnd(a) ==
    /\ frame_pc[a] = "io"
    /\ frame_pc' = [frame_pc EXCEPT ![a] = "idle"]
    /\ frame_lock' = "none"
    /\ frame_ev' = NoFrameEv
    /\ UNCHANGED <<frame_write, frame_last, frame_wake, wire_last, perf, frameOthers>>

\* time.perf_counter() advances
FrTick ==
    /\ perf < MaxTicks * ClockStep
    /\ perf' = perf + ClockStep
    /\ frame_ev' = NoFrameEv
    /\ UNCHANGED <<frame_pc, frame_write, frame_lock, frame_last, frame_wake, wire_last,
                   frameOthers>>

(***************************************************************************)
(* ModbusClientManager called from several threads: every method body runs *)
(* under `with self._clients_lock`, statement by statement                 *)
(***************************************************************************)
Threads == {"th1", "th2"}
PoolOps == {"get_tcp_client", "get_client_lock", "release_client"}
ThreadKey == "10.0.0.5:502"

\* what a method returns when it returns nothing, and a KeyError
ReturnsNone == 0
KeyError == -1

\* a plausible slip: the method bodies run without the lock
clients_lock_acquire_unguarded(holder, th) ==
    [ok |-> TRUE, holder |-> holder]

\* `with self._clients_lock:` entered by thread th: it gets the lock when no
\* thread holds it, and blocks otherwise
clients_lock_acquire(holder, th) ==
    IF holder = "none" THEN [ok |-> TRUE, holder |-> th]
                       ELSE [ok |-> FALSE, holder |-> holder]

\* the sequential meaning of a call: the pool afterwards, what was
\* constructed, what is returned
sequential(op, cl, fresh) ==
    IF op = "get_tcp_client"
      THEN LET r == get_tcp_client(cl, ThreadKey, fresh.client + 1)
           IN  [clients |-> r.clients, ret |-> r.ret,
                fresh |-> IF ThreadKey \in DOMAIN cl THEN fresh
                          ELSE [fresh EXCEPT !.client = @ + 1]]
      ELSE IF op = "get_client_lock"
        THEN LET r == get_client_lock(cl, ThreadKey, fresh.lock + 1)
             IN  [clients |-> r.clients, ret |-> r.ret,
                  fresh |-> IF r.ret = fresh.lock + 1 THEN [fresh EXCEPT !.lock = @ + 1]
                            ELSE fresh]
        ELSE [clients |-> release_client(cl, {}, ThreadKey).clients, ret |-> ReturnsNone,
              fresh |-> fresh]

NoCallRunning == [op |-> "none", pc |-> "idle", tmp |-> 0, ret |-> ReturnsNone]

ThreadsIdle ==
    /\ mgr = [k \in {} |-> 0]
    /\ clients_lock = "none"
    /\ thread = [th \in Threads |-> NoCallRunning]
    /\ mgr_fresh = [client |-> 0, lock |-> 0]
    /\ lin = [k \in {} |-> 0]
    /\ lin_fresh = [client |-> 0, lock |-> 0]
    /\ lin_ret = [th \in Threads |-> ReturnsNone]

threadOthers == <<cbVars, connVars, poolVars, ioVars, queueVars, cacheVars, schedVars,
                  detectVars, opVars, frameVars, spikeVars, onceVars, moduleVars, numVars, selVars, liveVars, driftVars, writeVars>>

\* thread th calls a method and reaches its `with self._clients_lock`
ThCall(th, op) ==
    /\ thread[th].pc \in {"idle", "done"}
    /\ op = "get_tcp_client" =>
          /\ mgr_fresh.client < MaxClients
          /\ ThreadKey \in DOMAIN lin => lin[ThreadKey].ref_count < MaxAcquires
    /\ op = "get_client_lock" => mgr_fresh.lock < MaxLocks
    /\ thread' = [thread EXCEPT ![th] = [op |-> op, pc |-> "with", tmp |-> 0,
                                         ret |-> ReturnsNone]]
    /\ UNCHANGED <<mgr, clients_lock, mgr_fresh, lin, lin_fresh, lin_ret, threadOthers>>

\* thread th enters the `with` block; this is where its call takes effect in
\* the sequential order
ThEnter(th) ==
    /\ thread[th].pc = "with"
    /\ LET a == clients_lock_acquire(clients_lock, th)
           r == sequential(thread[th].op, lin, lin_fresh)
       IN  /\ a.ok
           /\ clients_lock' = a.holder
           /\ lin' = r.clients
           /\ lin_fresh' = r.fresh
           /\ lin_ret' = [lin_ret EXCEPT ![th] = r.ret]
    /\ thread' = [thread EXCEPT ![th].pc = "check"]
    /\ UNCHANGED <<mgr, mgr_fresh, threadOthers>>

\* the first statement of the body: the test of `key in self._clients`, with
\* the construction of the entry (get_tcp_client) or the early return
ThCheck(th) ==
    /\ thread[th].pc = "check"
    /\ LET op == thread[th].op
           present == ThreadKey \in DOMAIN mgr
       IN  IF op = "get_tcp_client"
             THEN /\ mgr' = IF present THEN mgr
                            ELSE [x \in DOMAIN mgr \cup {ThreadKey} |->
                                     IF x = ThreadKey
                                       THEN [client |-> mgr_fresh.client + 1, ref_count |-> 0,
                                             lock |-> NoLock, type |-> CONN_TYPE_TCP]
                                       ELSE mgr[x]]
                  /\ mgr_fresh' = IF present THEN mgr_fresh
                                  ELSE [mgr_fresh EXCEPT !.client = @ + 1]
                  /\ thread' = [thread EXCEPT ![th].pc = "read"]
             ELSE /\ UNCHANGED <<mgr, mgr_fresh>>
                  /\ thread' = [thread EXCEPT ![th].pc = IF present THEN "read" ELSE "exit",
                                              ![th].ret = IF op = "get_client_lock"
                                                            THEN NoLock ELSE ReturnsNone]
    /\ UNCHANGED <<clients_lock, lin, lin_fresh, lin_ret, threadOthers>>

\* the read of the entry: of its ref_count, or of its lock
ThRead(th) ==
    /\ thread[th].pc = "read"
    /\ IF ThreadKey \notin DOMAIN mgr
         THEN thread' = [thread EXCEPT ![th].pc = "exit", ![th].ret = KeyError]
         ELSE IF thread[th].op = "get_client_lock"
           THEN thread' = [thread EXCEPT ![th].tmp = mgr[ThreadKey].lock,
                                         ![th].pc = IF mgr[ThreadKey].lock = NoLock
                                                      THEN "write" ELSE "exit",
                                         ![th].ret = mgr[ThreadKey].lock]
           ELSE thread' = [thread EXCEPT ![th].tmp = mgr[ThreadKey].ref_count,
                                         ![th].pc = "write"]
    /\ UNCHANGED <<mgr, mgr_fresh, clients_lock, lin, lin_fresh, lin_ret, threadOthers>>

\* the store into the entry: ref_count + 1, ref_count - 1, or asyncio.Lock()
ThWrite(th) ==
    /\ thread[th].pc = "write"
    /\ LET op == thread[th].op
       IN  IF ThreadKey \notin DOMAIN mgr
             THEN /\ thread' = [thread EXCEPT ![th].pc = "exit", ![th].ret = KeyError]
                  /\ UNCHANGED <<mgr, mgr_fresh>>
             ELSE IF op = "get_tcp_client"
               THEN /\ mgr' = [mgr EXCEPT ![ThreadKey].ref_count = thread[th].tmp + 1]
                    /\ thread' = [thread EXCEPT ![th].pc = "exit",
                                                ![th].ret = mgr[ThreadKey].client]
                    /\ UNCHANGED mgr_fresh
               ELSE IF op = "get_client_lock"
                 THEN /\ mgr' = [mgr EXCEPT ![ThreadKey].lock = mgr_fresh.lock + 1]
                      /\ mgr_fresh' = [mgr_fresh EXCEPT !.lock = @ + 1]
                      /\ thread' = [thread EXCEPT ![th].pc = "exit",
                                                  ![th].ret = mgr_fresh.lock + 1]
                 ELSE /\ mgr' = [mgr EXCEPT ![ThreadKey].ref_count = thread[th].tmp - 1]
                      /\ thread' = [thread EXCEPT ![th].pc = "del"]
                      /\ UNCHANGED mgr_fresh
    /\ UNCHANGED <<clients_lock, lin, lin_fresh, lin_ret, threadOthers>>

\* release_client: the entry goes when its count is not positive
ThDel(th) ==
    /\ thread[th].pc = "del"
    /\ IF ThreadKey \notin DOMAIN mgr
         THEN /\ thread' = [thread EXCEPT ![th].pc = "exit", ![th].ret = KeyError]
              /\ UNCHANGED mgr
         ELSE /\ mgr' = IF mgr[ThreadKey].ref_count <= 0 THEN Without(mgr, ThreadKey) ELSE mgr
              /\ thread' = [thread EXCEPT ![th].pc = "exit"]
    /\ UNCHANGED <<mgr_fresh, clients_lock, lin, lin_fresh, lin_ret, threadOthers>>

\* the `with` block is left, the method returns
ThExit(th) ==
    /\ thread[th].pc = "exit"
    /\ clients_lock' = IF clients_lock = th THEN "none" ELSE clients_lock
    /\ thread' = [thread EXCEPT ![th].pc = "done"]
    /\ UNCHANGED <<mgr, mgr_fresh, lin, lin_fresh, lin_ret, threadOthers>>

(***************************************************************************)
(* DataRetrieval.spike_filtering                                           *)
(***************************************************************************)
\* the noisy register, and the number of sentinel readings in a row at which
\* the sentinel is accepted
SPIKE_REGISTER == 33139
SPIKE_THRESHOLD == 3
SpikeRegisters == {SPIKE_REGISTER, 12345}
Readings == {0, 50, 60, 70}

\* a plausible slip: the sentinel is accepted one reading early
spike_filtering_early(counter, cached, register, value) ==
    IF register # SPIKE_REGISTER
      THEN [counter |-> counter, ret |-> value]
      ELSE IF value = 0 /\ cached # 0
        THEN IF counter + 1 < SPIKE_THRESHOLD - 1
               THEN [counter |-> counter + 1, ret |-> cached]
               ELSE [counter |-> 0, ret |-> value]
        ELSE [counter |-> 0, ret |-> value]

\* spike_filtering(register, value) with cache_get(register) = cached: the
\* counter afterwards and the value returned
spike_filtering(counter, cached, register, value) ==
    IF register # SPIKE_REGISTER
      THEN [counter |-> counter, ret |-> value]
      ELSE IF value = 0 /\ cached # 0
        THEN IF counter + 1 < SPIKE_THRESHOLD
               THEN [counter |-> counter + 1, ret |-> cached]
               ELSE [counter |-> 0, ret |-> value]
        ELSE [counter |-> 0, ret |-> value]

NoSpikeEv == [register |-> 0, value |-> 0, cached |-> 0, ret |-> 0, run |-> 0]

SpikeIdle ==
    /\ spike_counter = 0
    /\ spike_cached = [r \in SpikeRegisters |-> 50]
    /\ spike_run = 0
    /\ spike_ev = NoSpikeEv

spikeOthers == <<cbVars, connVars, poolVars, ioVars, queueVars, cacheVars, schedVars,
                 detectVars, opVars, frameVars, threadVars, onceVars, moduleVars, numVars, selVars, liveVars, driftVars, writeVars>>

\* a poll read `value` from `register`: the reading is filtered and what the
\* filter returns is cached
SpikeReading(register, value) ==
    LET r == spike_filtering(spike_counter, spike_cached[register], register, value)
        sentinel == register = SPIKE_REGISTER /\ value = 0 /\ spike_cached[register] # 0
        run == IF sentinel THEN spike_run + 1
               ELSE IF register = SPIKE_REGISTER THEN 0 ELSE spike_run
    IN  /\ spike_counter' = r.counter
        /\ spike_cached' = [spike_cached EXCEPT ![register] = r.ret]
        /\ spike_run' = run
        /\ spike_ev' = [register |-> register, value |-> value,
                        cached |-> spike_cached[register], ret |-> r.ret, run |-> run]
        /\ UNCHANGED spikeOthers

(***************************************************************************)
(* Groups polled once: get_modbus_updates and remove_sensor_groups         *)
(***************************************************************************)
PollSpeeds == {"ONCE", "FAST", "NORMAL"}

once_group == [start_register |-> 4000, poll_speed |-> "ONCE"]
once_group_2 == [start_register |-> 4100, poll_speed |-> "ONCE"]
normal_group == [start_register |-> 2000, poll_speed |-> "NORMAL"]
fast_group == [start_register |-> 1000, poll_speed |-> "FAST"]

\* the elements of a list
Elements(list) == {list[i] : i \in 1..Len(list)}

\* a plausible slip: the groups named are the ones kept
remove_sensor_groups_kept(groups, groups_to_remove) ==
    SelectSeq(groups, LAMBDA g : g \in groups_to_remove)

\* ModbusController.remove_sensor_groups
remove_sensor_groups(groups, groups_to_remove) ==
    SelectSeq(groups, LAMBDA g : g \notin groups_to_remove)

\* the groups a poll removes when it ends: the ones tagged ONCE among those
\* it read successfully
groups_to_remove(ok) == {g \in ok : g.poll_speed = "ONCE"}

NoOncePoll == [pc |-> "idle", groups |-> {}, todo |-> {}, ok |-> {}]

OnceIdle ==
    /\ sensor_groups = <<once_group, once_group_2, normal_group, fast_group>>
    /\ once_poll = NoOncePoll
    /\ read_ok = {}

onceOthers == <<cbVars, connVars, poolVars, ioVars, queueVars, cacheVars, schedVars,
                detectVars, opVars, frameVars, threadVars, spikeVars, moduleVars, numVars, selVars, liveVars, driftVars, writeVars>>

\* a tick polls some of the active groups
OncePoll(groups) ==
    /\ once_poll.pc = "idle"
    /\ groups # {}
    /\ groups \subseteq Elements(sensor_groups)
    /\ once_poll' = [pc |-> "polling", groups |-> groups, todo |-> groups, ok |-> {}]
    /\ UNCHANGED <<sensor_groups, read_ok, onceOthers>>

\* the read of group g returns registers (success) or None
OnceRead(g, success) ==
    /\ once_poll.pc = "polling"
    /\ g \in once_poll.todo
    /\ once_poll' = [once_poll EXCEPT !.todo = @ \ {g},
                                      !.ok = IF success THEN @ \cup {g} ELSE @]
    /\ UNCHANGED <<sensor_groups, read_ok, onceOthers>>

\* the poll ends
OnceFinish ==
    /\ once_poll.pc = "polling"
    /\ once_poll.todo = {}
    /\ sensor_groups' = remove_sensor_groups(sensor_groups, groups_to_remove(once_poll.ok))
    /\ read_ok' = read_ok \cup once_poll.ok
    /\ once_poll' = NoOncePoll
    /\ UNCHANGED onceOthers

(***************************************************************************)
(* BatteryController.read_module_serials                                   *)
(***************************************************************************)
MODULE_SERIAL_BASE == 10821
MODULE_SERIAL_COUNT == 9

\* what the read of a module's record gives: registers that decode to a
\* serial number, registers that decode to nothing (all zero), or no result
ModuleRecords == {"serial", "blank", "None"}

\* the address of the record of module module_idx
module_address(module_idx) == MODULE_SERIAL_BASE + module_idx * MODULE_SERIAL_COUNT

\* if module_idx >= len(self.battery.modules): append a BatteryModule with
\* index module_idx, else set the serial number of modules[module_idx]; the
\* serial number read for module i is written i
store_module(battery_modules, module_idx) ==
    IF module_idx >= Len(battery_modules)
      THEN Append(battery_modules, [index |-> module_idx, serial_number |-> module_idx])
      ELSE [battery_modules EXCEPT ![module_idx + 1].serial_number = module_idx]

\* one round of the loop of read_module_serials: the record of module
\* m.module_idx is read and gives `record`
read_module(m, record) ==
    LET m1 == [m EXCEPT !.reads = Append(@, module_address(m.module_idx)),
                        !.records = Append(@, record)]
        m2 == IF record = "serial"
                THEN [m1 EXCEPT !.serials = Append(@, m.module_idx),
                                !.battery = store_module(@, m.module_idx)]
                ELSE m1
    IN  IF record = "blank" \/ m.module_idx + 1 >= MAX_MODULES
          THEN [m2 EXCEPT !.pc = "returned"]
          ELSE [m2 EXCEPT !.module_idx = @ + 1]

ModulesIdle ==
    modules = [pc |-> "loop", module_idx |-> 0, serials |-> <<>>, reads |-> <<>>,
               records |-> <<>>, battery |-> <<>>, calls |-> 1]

moduleOthers == <<cbVars, connVars, poolVars, ioVars, queueVars, cacheVars, schedVars,
                  detectVars, opVars, frameVars, threadVars, spikeVars, onceVars, numVars, selVars, liveVars, driftVars, writeVars>>

ModuleRead(record) ==
    /\ modules.pc = "loop"
    /\ modules' = read_module(modules, record)
    /\ UNCHANGED moduleOthers

\* read_module_serials is called again on the same battery stack
ModuleCall ==
    /\ modules.pc = "returned"
    /\ modules.calls < MaxModuleCalls
    /\ modules' = [modules EXCEPT !.pc = "loop", !.module_idx = 0, !.serials = <<>>,
                                  !.reads = <<>>, !.records = <<>>, !.calls = @ + 1]
    /\ UNCHANGED moduleOthers

(***************************************************************************)
(* Decoding of register values: split_s32 (helpers.py) and                 *)
(* SungrowBaseSensor._convert_raw_value (sungrow_base_sensor.py)           *)
(***************************************************************************)
\* 16-bit register values: the ends of the range, the sign boundary, and
\* some values between
Words == {0, 1, 2, 255, 256, 4660, 32767, 32768, 32769, 65534, 65535}

\* x & y and x | y of non-negative integers
RECURSIVE bit_and(_, _)
bit_and(x, y) ==
    IF x = 0 \/ y = 0 THEN 0
    ELSE 2 * bit_and(x \div 2, y \div 2) + (IF x % 2 = 1 /\ y % 2 = 1 THEN 1 ELSE 0)

RECURSIVE bit_or(_, _)
bit_or(x, y) ==
    IF x = 0 THEN y
    ELSE IF y = 0 THEN x
    ELSE 2 * bit_or(x \div 2, y \div 2) + (IF x % 2 = 1 \/ y % 2 = 1 THEN 1 ELSE 0)

\* (high_word << 16) | (low_word & 0xFFFF), a number of up to 32 bits, kept
\* as its two 16-bit halves: the shift puts high_word in the upper half and
\* leaves the lower half 0 for the | to fill
unsigned_value(high_word, low_word) ==
    [upper |-> high_word, lower |-> bit_or(0, bit_and(low_word, 65535))]

\* a plausible slip: the low word is read as signed as well
split_s32_signed_low(s32_values) ==
    IF Len(s32_values) < 2
      THEN 0
      ELSE LET u == unsigned_value(s32_values[1], s32_values[2])
               low == IF u.lower >= 32768 THEN u.lower - 65536 ELSE u.lower
           IN  IF u.upper >= 32768
                 THEN (u.upper - 65536) * 65536 + low
                 ELSE u.upper * 65536 + low

\* split_s32: unsigned_value >= 1 << 31 is upper >= 1 << 15, and
\* unsigned_value - (1 << 32) takes 1 << 16 from the upper half
split_s32(s32_values) ==
    IF Len(s32_values) < 2
      THEN 0
      ELSE LET u == unsigned_value(s32_values[1], s32_values[2])
           IN  IF u.upper >= 32768
                 THEN (u.upper - 65536) * 65536 + u.lower
                 ELSE u.upper * 65536 + u.lower

\* a plausible slip: 32768 is left positive
convert_raw_value_gt(values, signed, multiplier) ==
    LET raw_value == IF signed /\ values[1] > 32768 THEN values[1] - 65536 ELSE values[1]
    IN  IF multiplier = 0 \/ multiplier = 1 THEN raw_value ELSE raw_value * multiplier

\* _convert_raw_value of a field of one register, up to _last_raw_value;
\* round() of an integer is that integer
convert_raw_value(values, signed, multiplier) ==
    LET raw_value == IF signed /\ values[1] >= 32768 THEN values[1] - 65536 ELSE values[1]
    IN  IF multiplier = 0 \/ multiplier = 1 THEN raw_value ELSE raw_value * multiplier

NoDecoding == [fn |-> "none", values |-> <<>>, signed |-> FALSE, multiplier |-> 1, ret |-> 0]

NumIdle == num = NoDecoding

numOthers == <<cbVars, connVars, poolVars, ioVars, queueVars, cacheVars, schedVars,
               detectVars, opVars, frameVars, threadVars, spikeVars, onceVars, moduleVars, selVars, liveVars, driftVars, writeVars>>

NumSplit(high, low) ==
    /\ num' = [NoDecoding EXCEPT !.fn = "split_s32", !.values = <<high, low>>,
                                 !.ret = split_s32(<<high, low>>)]
    /\ UNCHANGED numOthers

NumConvert(r, signed, multiplier) ==
    /\ num' = [NoDecoding EXCEPT !.fn = "_convert_raw_value", !.values = <<r>>,
                                 !.signed = signed, !.multiplier = multiplier,
                                 !.ret = convert_raw_value(<<r>>, signed, multiplier)]
    /\ UNCHANGED numOthers

(***************************************************************************)
(* helpers.get_bit_bool, helpers.set_bit and                               *)
(* SungrowSelectEntity.set_register_bit                                    *)
(***************************************************************************)
\* the register values and the bit positions the helpers are called with
BitValues == (0..15) \cup {64, 2048, 2113, 32768, 65535}
BitPositions == {0, 1, 2, 6, 11, 15, 16}
\* the bits a value of the model can have
AllBits == 0..17

\* x & ~y on non-negative integers, bit by bit
RECURSIVE bit_and_not(_, _)
bit_and_not(x, y) ==
    IF x = 0 THEN 0
    ELSE 2 * bit_and_not(x \div 2, y \div 2) + (IF x % 2 = 1 /\ y % 2 = 0 THEN 1 ELSE 0)

\* (modbus_value >> bit_position) & 1 == 1
get_bit_bool(modbus_value, bit_position) ==
    bit_and(modbus_value \div (2 ^ bit_position), 1) = 1

\* set_bit without the clearing of the bit
set_bit_no_clear(value, bit_position, new_bit_value) ==
    LET mask == 2 ^ bit_position
    IN  IF new_bit_value THEN bit_or(value, mask) ELSE value

\* mask = 1 << bit_position; value &= ~mask; if new_bit_value: value |= mask
set_bit(value, bit_position, new_bit_value) ==
    LET mask    == 2 ^ bit_position
        cleared == bit_and_not(value, mask)
    IN  IF new_bit_value THEN bit_or(cleared, mask) ELSE cleared

\* cache_get found no value for the register
NoValue == -1

\* the registers of a select entity: 4 bits, and the lists of its options
SelectValues == 0..15
SelectBits == 0..2
BitLists == {<<>>} \cup {<<a>> : a \in SelectBits}
               \cup {<<a, b>> : a \in SelectBits, b \in SelectBits}
ShortBitLists == {<<>>} \cup {<<a>> : a \in SelectBits}

\* for bit in bits: value = set_bit(value, bit, new_bit_value)
RECURSIVE set_bits(_, _, _)
set_bits(value, bits, new_bit_value) ==
    IF bits = <<>> THEN value
    ELSE set_bits(set_bit(value, Head(bits), new_bit_value), Tail(bits), new_bit_value)

\* set_register_bit for an option with a bit position: the local
\* current_register_value after the two loops, the new value, and whether
\* the write task is created
set_register_bit(cached, bit_position, conflicts_with, requires, connected) ==
    LET from_cache == IF cached = NoValue THEN 0 ELSE cached
        current_register_value ==
            set_bits(set_bits(from_cache, conflicts_with, FALSE), requires, TRUE)
        new_register_value == set_bit(current_register_value, bit_position, TRUE)
    IN  [current |-> current_register_value,
         new     |-> new_register_value,
         written |-> current_register_value # new_register_value /\ connected]

NoSelCall == [fn |-> "none", value |-> 0, p |-> 0, b |-> FALSE, once |-> 0, twice |-> 0,
              cached |-> 0, connected |-> FALSE, conflicts_with |-> <<>>,
              requires |-> <<>>, new |-> 0, written |-> FALSE]

SelIdle == sel = NoSelCall

selOthers == <<cbVars, connVars, poolVars, ioVars, queueVars, cacheVars, schedVars,
               detectVars, opVars, frameVars, threadVars, spikeVars, onceVars, moduleVars,
               numVars, liveVars, driftVars, writeVars>>

\* set_bit(value, p, b), and set_bit applied to its own result
SelSetBit(value, p, b) ==
    /\ sel = NoSelCall
    /\ sel' = [NoSelCall EXCEPT !.fn = "set_bit", !.value = value, !.p = p, !.b = b,
                                !.once = set_bit(value, p, b),
                                !.twice = set_bit(set_bit(value, p, b), p, b)]
    /\ UNCHANGED selOthers

\* an option with a bit position is selected
SelSetRegisterBit(cached, p, conflicts_with, requires, connected) ==
    LET r == set_register_bit(cached, p, conflicts_with, requires, connected)
    IN  /\ sel = NoSelCall
        /\ sel' = [NoSelCall EXCEPT !.fn = "set_register_bit", !.cached = cached, !.p = p,
                                    !.connected = connected,
                                    !.conflicts_with = conflicts_with,
                                    !.requires = requires,
                                    !.new = r.new, !.written = r.written]
        /\ UNCHANGED selOthers

\* the call has returned
SelReturn ==
    /\ sel # NoSelCall
    /\ sel' = NoSelCall
    /\ UNCHANGED selOthers

\* ---- from some point on the connection stays up
LiveIdle == conn_stable = FALSE

liveOthers == <<cbVars, connVars, poolVars, ioVars, queueVars, cacheVars, schedVars,
                detectVars, opVars, frameVars, threadVars, spikeVars, onceVars, moduleVars,
                numVars, selVars, driftVars, writeVars>>

\* the connection is up and, from here on, stays up
QStabilise ==
    /\ client_connected
    /\ ~conn_stable
    /\ conn_stable' = TRUE
    /\ UNCHANGED liveOthers

(***************************************************************************)
(* helpers.clock_drift_test                                                *)
(***************************************************************************)
CLOCK_CORRECTION_COOLDOWN == 3600
DRIFT_TOLERANCE == 60
DRIFT_CHECKS == 5
HALF_DAY == 43200
DAY == 86400

\* the first check is made half a minute before midnight
DriftStart == 2 * DAY - 30
\* the clock moves by a third of a minute or by an hour
ClockSteps == {20, CLOCK_CORRECTION_COOLDOWN}
\* how far the device's clock is behind the current time (ahead: negative)
Offsets == {-20, 0, 20, 300}

abs(x) == IF x < 0 THEN 0 - x ELSE x

\* (current_time - device_time).total_seconds(), device_time being hours,
\* minutes, seconds on the current date, moved by a day when more than 12
\* hours away
total_drift(time_of_day, hours, minutes, seconds) ==
    LET raw == time_of_day - (hours * 3600 + minutes * 60 + seconds)
    IN  IF raw > HALF_DAY THEN raw + DAY
        ELSE IF raw < 0 - HALF_DAY THEN raw - DAY
        ELSE raw

\* clock_drift_test: the controller's two entries of hass.data afterwards,
\* and what it returns (True: the write of the current time was issued)
clock_drift_test(data, time_time, connected, hours, minutes, seconds) ==
    LET drift == total_drift(time_time % DAY, hours, minutes, seconds)
    IN  IF abs(drift) > DRIFT_TOLERANCE
          THEN IF data.drift_counter > DRIFT_CHECKS
                 THEN IF time_time - data.last_correction >= CLOCK_CORRECTION_COOLDOWN
                         /\ connected
                        THEN [data |-> [drift_counter |-> 0, last_correction |-> time_time],
                              clock_adjusted |-> TRUE]
                        ELSE [data |-> data, clock_adjusted |-> FALSE]
                 ELSE [data |-> [data EXCEPT !.drift_counter = @ + 1], clock_adjusted |-> FALSE]
          ELSE [data |-> [data EXCEPT !.drift_counter = 0], clock_adjusted |-> FALSE]

NoDriftEv == [kind |-> "none", apart |-> 0, connected |-> FALSE, since |-> 0, run |-> 0,
              counter |-> 0, adjusted |-> FALSE]

\* nothing stored yet: .get(drift_key, 0) and .get(correction_key, 0)
DriftIdle ==
    /\ drift_clock = DriftStart
    /\ drift_data = [drift_counter |-> 0, last_correction |-> 0]
    /\ drift_run = 0
    /\ drift_ticks = 0
    /\ drift_ev = NoDriftEv

driftOthers == <<cbVars, connVars, poolVars, ioVars, queueVars, cacheVars, schedVars,
                 detectVars, opVars, frameVars, threadVars, spikeVars, onceVars, moduleVars,
                 numVars, selVars, liveVars, writeVars>>

\* the device's clock, read `apart` seconds behind the current time, is checked
DriftCheck(apart, connected) ==
    LET device == (drift_clock - apart) % DAY
        r == clock_drift_test(drift_data, drift_clock, connected,
                              device \div 3600, (device % 3600) \div 60, device % 60)
    IN  /\ drift_data' = r.data
        /\ drift_run' = IF abs(apart) > DRIFT_TOLERANCE
                          THEN (IF drift_run > DRIFT_CHECKS THEN drift_run ELSE drift_run + 1)
                          ELSE 0
        /\ drift_ev' = [kind |-> "check", apart |-> apart, connected |-> connected,
                        since |-> drift_clock - drift_data.last_correction,
                        run |-> drift_run, counter |-> drift_data.drift_counter,
                        adjusted |-> r.clock_adjusted]
        /\ UNCHANGED <<drift_clock, drift_ticks>>
        /\ UNCHANGED driftOthers

\* time passes
DriftTick(step) ==
    /\ drift_ticks < MaxDriftTicks
    /\ drift_ticks' = drift_ticks + 1
    /\ drift_clock' = drift_clock + step
    /\ drift_ev' = NoDriftEv
    /\ UNCHANGED <<drift_data, drift_run>>
    /\ UNCHANGED driftOthers

(***************************************************************************)
(* _execute_write_holding_register(s): the cache and the events            *)
(***************************************************************************)
\* the controllers that write: [connection_id, device_id]
Writers == {[connection_id |-> "10.0.0.5:502", device_id |-> 1],
            [connection_id |-> "10.0.0.5:502", device_id |-> 10]}
WriteRegisters == {RegBase, RegBase + 1}
WriteValues == {7, 9}
ValueLists == {<<v>> : v \in WriteValues} \cup {<<v, w>> : v \in WriteValues, w \in WriteValues}

\* how an execution goes: connect() returns False, or the transport's write
\* returns a response, returns an error response, or raises
ExecOutcomes == {"not_connected", "ok", "isError", "ConnectionException",
                 "ModbusException", "Exception"}

\* self.controller_key = f"{self.connection_id}_{self.device_id}"
controller_key_of(c) == c.connection_id \o "_" \o ToString(c.device_id)

\* cache_save(hass, register, value, controller_key)
cache_save(vals, register, value, controller_key) ==
    LET key == controller_key \o ":" \o ToString(register)
    IN  [k \in DOMAIN vals \cup {key} |-> IF k = key THEN value ELSE vals[k]]

\* the event fired for a register
register_event(c, register, value) ==
    [REGISTER |-> register, VALUE |-> value, CONTROLLER |-> c.connection_id,
     SLAVE |-> c.device_id]

\* for i, value in enumerate(values): cache_save(...); async_fire(...)
RECURSIVE save_and_fire(_, _, _, _, _)
save_and_fire(c, vals, fired, register, values) ==
    IF values = <<>>
      THEN [cache |-> vals, fired |-> fired]
      ELSE save_and_fire(c, cache_save(vals, register, Head(values), controller_key_of(c)),
                         Append(fired, register_event(c, register, Head(values))),
                         register + 1, Tail(values))

\* a plausible slip: the cache is written before the response is tested
execute_write_save_first(c, vals, multiple, register, values, outcome) ==
    IF outcome \in {"ok", "isError"}
      THEN LET r == save_and_fire(c, vals, <<>>, register,
                                  IF multiple THEN values ELSE <<Head(values)>>)
           IN  IF outcome = "ok"
                 THEN [ret |-> "result", cache |-> r.cache, fired |-> r.fired]
                 ELSE [ret |-> "None", cache |-> r.cache, fired |-> <<>>]
      ELSE [ret |-> "None", cache |-> vals, fired |-> <<>>]

\* _execute_write_holding_registers (multiple) and
\* _execute_write_holding_register (the first of values is the value; the
\* response's .value is the value sent): what is returned, the cache
\* afterwards and the events fired
execute_write(c, vals, multiple, register, values, outcome) ==
    IF outcome # "ok"
      THEN [ret |-> "None", cache |-> vals, fired |-> <<>>]
      ELSE LET r == save_and_fire(c, vals, <<>>, register,
                                  IF multiple THEN values ELSE <<Head(values)>>)
           IN  [ret |-> "result", cache |-> r.cache, fired |-> r.fired]

NoWrite == [kind |-> "none", controller |-> [connection_id |-> "none", device_id |-> 0],
            multiple |-> FALSE, register |-> 0, values |-> <<>>, outcome |-> "none",
            ret |-> "none", before |-> <<>>, fired |-> <<>>]

WriteIdle ==
    /\ values_cache = <<>>
    /\ wr = NoWrite

writeOthers == <<cbVars, connVars, poolVars, ioVars, queueVars, cacheVars, schedVars,
                 detectVars, opVars, frameVars, threadVars, spikeVars, onceVars, moduleVars,
                 numVars, selVars, liveVars, driftVars>>

\* a write of controller c is executed
WrExecute(c, multiple, register, values, outcome) ==
    /\ wr = NoWrite
    /\ multiple \/ Len(values) = 1
    /\ LET r == execute_write(c, values_cache, multiple, register, values, outcome)
       IN  /\ values_cache' = r.cache
           /\ wr' = [kind |-> "write", controller |-> c, multiple |-> multiple,
                     register |-> register, values |-> values, outcome |-> outcome,
                     ret |-> r.ret, before |-> values_cache, fired |-> r.fired]
    /\ UNCHANGED writeOthers

\* the execution has returned
WrReturn ==
    /\ wr # NoWrite
    /\ wr' = NoWrite
    /\ UNCHANGED values_cache
    /\ UNCHANGED writeOthers

(***************************************************************************)
(* The specifications                                                      *)
(***************************************************************************)
\* the components added to the engine's core, before anything happened
AuxIdle == CacheEmpty /\ SchedIdle /\ DetectIdle /\ OpIdle /\ FrameIdle
           /\ ThreadsIdle /\ SpikeIdle /\ OnceIdle /\ ModulesIdle
           /\ NumIdle /\ SelIdle /\ LiveIdle /\ DriftIdle /\ WriteIdle

\* ---- the breaker on its own: its methods called in any order, at any time
CBInit ==
    /\ \E ft \in FailureThresholds, rt \in RecoveryTimeouts :
          /\ circuit_breaker = CircuitBreaker(ft, rt)
          /\ cb_pre = CircuitBreaker(ft, rt)
    /\ now = 0
    /\ cb_op = "init"
    /\ cb_ret = FALSE
    /\ ConnIdle
    /\ PoolEmpty
    /\ IoIdle
    /\ QueueIdle
    /\ AuxIdle

CBNext ==
    \/ CBRecordSuccess
    \/ CBRecordFailure
    \/ CBCanAttempt
    \/ Tick

SpecCB == CBInit /\ [][CBNext]_vars

\* the controller builds its breaker with the defaults
ConnectInit ==
    /\ circuit_breaker = CircuitBreaker(CIRCUIT_BREAKER_FAILURE_THRESHOLD,
                                        CIRCUIT_BREAKER_RECOVERY_MINUTES)
    /\ cb_pre = circuit_breaker
    /\ now = 0
    /\ cb_op = "init"
    /\ cb_ret = FALSE
    /\ ConnIdle
    /\ PoolEmpty
    /\ IoIdle
    /\ QueueIdle
    /\ AuxIdle

ConnectNext ==
    \/ \E t \in ConnTasks : ConnectCall(t)
    \/ \E t \in ConnTasks, established \in BOOLEAN, raised \in ConnectRaises :
          ConnectReturn(t, established, raised)
    \/ ConnectionLost
    \/ Tick

SpecConnect == ConnectInit /\ [][ConnectNext]_vars

\* ---- the same controller with a battery stack reading through its transport
SharedNext ==
    \/ ConnectNext
    \/ \E established \in BOOLEAN : BatteryReadConnect(established)

SpecShared == ConnectInit /\ [][SharedNext]_vars

PoolInit ==
    /\ circuit_breaker = CircuitBreaker(CIRCUIT_BREAKER_FAILURE_THRESHOLD,
                                        CIRCUIT_BREAKER_RECOVERY_MINUTES)
    /\ cb_pre = circuit_breaker
    /\ now = 0
    /\ cb_op = "init"
    /\ cb_ret = FALSE
    /\ ConnIdle
    /\ PoolEmpty
    /\ IoIdle
    /\ QueueIdle
    /\ AuxIdle

PoolNext ==
    \/ \E k \in TcpKeys : PoolGetTcp(k)
    \/ \E k \in SerialKeys : PoolGetSerial(k)
    \/ \E k \in Keys : PoolGetLock(k)
    \/ \E k \in Keys : PoolRelease(k)
    \/ \E o \in 1..next_client : TransportConnect(o)
    \/ \E o \in 1..next_client : TransportDrop(o)

SpecPool == PoolInit /\ [][PoolNext]_vars

IOInit ==
    /\ circuit_breaker = CircuitBreaker(CIRCUIT_BREAKER_FAILURE_THRESHOLD,
                                        CIRCUIT_BREAKER_RECOVERY_MINUTES)
    /\ cb_pre = circuit_breaker
    /\ now = 0
    /\ cb_op = "init"
    /\ cb_ret = FALSE
    /\ ConnIdle
    /\ PoolEmpty
    /\ IoIdle
    /\ QueueIdle
    /\ AuxIdle

IONext ==
    \/ \E c \in Ctrls, key \in Keys : Build(c, key)
    \/ \E c \in Ctrls : Close(c)
    \/ \E c \in Ctrls, k \in IoKinds : IoLock(c, k)
    \/ \E c \in Ctrls, k \in IoKinds : IoIssue(c, k)
    \/ \E c \in Ctrls, outcome \in {"connected", "not_connected", "raised"} :
          IoBatteryConnect(c, outcome)
    \/ \E c \in Ctrls, k \in IoKinds : IoEnd(c, k)
    \/ \E c \in Ctrls : IoConnect(c)
    \/ \E o \in 1..next_client : IoDrop(o)

SpecIO == IOInit /\ [][IONext]_vars

\* ---- controllers constructed and closed, close_connection() called any
\* number of times
CloseNext ==
    \/ \E c \in Ctrls, key \in Keys : Build(c, key)
    \/ \E c \in Ctrls : CloseConnection(c)
    \/ \E c \in Ctrls : IoConnect(c)
    \/ \E o \in 1..next_client : IoDrop(o)

SpecClose == IOInit /\ [][CloseNext]_vars

QueueInit ==
    /\ circuit_breaker = CircuitBreaker(CIRCUIT_BREAKER_FAILURE_THRESHOLD,
                                        CIRCUIT_BREAKER_RECOVERY_MINUTES)
    /\ cb_pre = circuit_breaker
    /\ now = 0
    /\ cb_op = "init"
    /\ cb_ret = FALSE
    /\ ConnIdle
    /\ PoolEmpty
    /\ IoIdle
    /\ QueueIdle
    /\ AuxIdle

QueueNext ==
    \/ \E c \in Callers, multiple \in BOOLEAN : QSubmit(c, multiple)
    \/ \E c \in Callers : QCallerCancel(c)
    \/ QWake
    \/ \E established \in BOOLEAN, raised \in ConnectRaises : QConnectDone(established, raised)
    \/ QLockGranted
    \/ \E convertible \in BOOLEAN : QIssue(convertible)
    \/ \E outcome \in WriteOutcomes : QIoDone(outcome)
    \/ QCancel
    \/ QReaderLock
    \/ QReaderUnlock
    \/ QConnected
    \/ QConnectionLost

SpecQueue == QueueInit /\ [][QueueNext]_vars

\* ---- the consumer loop while it runs (it is not cancelled), with what the
\* event loop and the transport guarantee: a sleep ends, a call of the
\* transport ends (with a response, an error or a timeout), a reader gives
\* the lock back, and asyncio.Lock hands a released lock to the task that
\* waits for it. In the running loop connect() is called right after the
\* test of connected() and returns True at once.
\* the callers that put a request while the loop is watched for progress
LiveCallers == {1, 2}

QueueLiveNext ==
    \/ \E c \in LiveCallers, multiple \in BOOLEAN : QSubmit(c, multiple)
    \/ \E c \in LiveCallers : QCallerCancel(c)
    \/ QWake
    \/ QLockGranted
    \/ \E convertible \in BOOLEAN : QIssue(convertible)
    \/ \E outcome \in WriteOutcomes : QIoDone(outcome)
    \/ QReaderLock
    \/ QReaderUnlock
    \/ QConnected
    \/ QConnectionLost
    \/ QStabilise

QueueFairness ==
    /\ WF_vars(QWake)
    /\ SF_vars(QLockGranted)
    /\ WF_vars(\E convertible \in BOOLEAN : QIssue(convertible))
    /\ WF_vars(\E outcome \in WriteOutcomes : QIoDone(outcome))
    /\ WF_vars(QReaderUnlock)

SpecQueueLive == QueueInit /\ [][QueueLiveNext]_vars /\ QueueFairness

CoreIdle ==
    /\ circuit_breaker = CircuitBreaker(CIRCUIT_BREAKER_FAILURE_THRESHOLD,
                                        CIRCUIT_BREAKER_RECOVERY_MINUTES)
    /\ cb_pre = circuit_breaker
    /\ now = 0
    /\ cb_op = "init"
    /\ cb_ret = FALSE
    /\ ConnIdle
    /\ PoolEmpty
    /\ IoIdle
    /\ QueueIdle

CacheInit == CoreIdle /\ AuxIdle

CacheNext ==
    \/ \E k \in ControllerKeys : \E reg \in RegistersOf(k) : CacheGet(k, reg)
    \/ \E k \in ControllerKeys, ttl \in Ttls :
          \E reg \in RegistersOf(k), v \in ValuesOf(k) : CacheSet(k, reg, v, ttl)
    \/ \E k \in ControllerKeys : \E reg \in RegistersOf(k) :
          \E n \in CountsOf(k, reg) : CacheIsRangeCached(k, reg, n)
    \/ \E k \in ControllerKeys : \E reg \in RegistersOf(k) :
          \E n \in CountsOf(k, reg) : CacheGetRange(k, reg, n)
    \/ \E k \in ControllerKeys, ttl \in Ttls :
          \E reg \in RegistersOf(k), v \in ValuesOf(k) :
             \E n \in CountsOf(k, reg) : CacheSetRange(k, reg, n, v, ttl)
    \/ \E k \in ControllerKeys : \E reg \in RegistersOf(k) : CacheInvalidate(k, reg)
    \/ \E k \in ControllerKeys : \E reg \in RegistersOf(k) :
          \E n \in CountsOf(k, reg) : CacheInvalidateRange(k, reg, n)
    \/ \E k \in ControllerKeys : CacheClear(TRUE, k)
    \/ CacheClear(FALSE, "")
    \/ CacheStats
    \/ CacheTick

SpecCache == CacheInit /\ [][CacheNext]_vars

SchedInit == CoreIdle /\ AuxIdle

SchedNext ==
    \/ \E p \in PollCalls, groups \in GroupSets, tier \in Tiers, usable \in BOOLEAN :
          SchedCall(p, groups, tier, usable)
    \/ \E p \in PollCalls, g \in SensorGroups, cached \in BOOLEAN : SchedGroup(p, g, cached)
    \/ \E p \in PollCalls : SchedReadDone(p)
    \/ \E p \in PollCalls : SchedFinish(p)

SpecSched == SchedInit /\ [][SchedNext]_vars

DetectInit == CoreIdle /\ AuxIdle

DetectNext ==
    \/ \E result \in ReadResults : DetectProbe(result)
    \/ \E result \in ReadResults : DetectSerial(result)
    \/ \E result \in ReadResults : DetectFirmware(result)
    \/ \E result \in ReadResults, blank \in BOOLEAN : DetectModule(result, blank)

SpecDetect == DetectInit /\ [][DetectNext]_vars

\* ---- the operations of one controller, run and cancelled by two tasks
OpInit == CoreIdle /\ QueueIdle /\ AuxIdle

OpNext ==
    \/ \E t \in OpTasks, kind \in OpKinds : OpCall(t, kind)
    \/ \E t \in OpTasks, established \in BOOLEAN, raised \in Raised \cup {"none"} :
          OpConnectDone(t, established, raised)
    \/ \E t \in OpTasks : OpLockGranted(t)
    \/ \E t \in OpTasks : OpSleepDone(t)
    \/ \E t \in OpTasks, outcome \in Raised \cup {"ok", "isError"} : OpIoDone(t, outcome)
    \/ \E t \in OpTasks : OpCancel(t)
    \/ OpTick
    \/ OpConnectionLost

SpecOp == OpInit /\ [][OpNext]_vars

\* ---- one transport, two controllers and the battery reads of the first
FrameInit == CoreIdle /\ QueueIdle /\ AuxIdle

FrameNext ==
    \/ \E a \in Actors, is_write \in BOOLEAN : FrLock(a, is_write)
    \/ \E a \in Actors : FrSleepDone(a)
    \/ \E a \in Actors : FrEnd(a)
    \/ FrTick

SpecFrame == FrameInit /\ [][FrameNext]_vars

\* ---- the pool's methods called from two threads
ThreadsInit == CoreIdle /\ QueueIdle /\ AuxIdle

ThreadsNext ==
    \/ \E th \in Threads, op \in PoolOps : ThCall(th, op)
    \/ \E th \in Threads : ThEnter(th)
    \/ \E th \in Threads : ThCheck(th)
    \/ \E th \in Threads : ThRead(th)
    \/ \E th \in Threads : ThWrite(th)
    \/ \E th \in Threads : ThDel(th)
    \/ \E th \in Threads : ThExit(th)

SpecThreads == ThreadsInit /\ [][ThreadsNext]_vars

\* ---- the readings of two registers, filtered one after the other
SpikeInit == CoreIdle /\ QueueIdle /\ AuxIdle

SpikeNext == \E register \in SpikeRegisters, value \in Readings : SpikeReading(register, value)

SpecSpike == SpikeInit /\ [][SpikeNext]_vars

\* ---- polls of the controller's active groups, one after the other
OnceInit == CoreIdle /\ QueueIdle /\ AuxIdle

OnceNext ==
    \/ \E groups \in SUBSET Elements(sensor_groups) : OncePoll(groups)
    \/ \E g \in Elements(sensor_groups), success \in BOOLEAN : OnceRead(g, success)
    \/ OnceFinish

SpecOnce == OnceInit /\ [][OnceNext]_vars

\* ---- read_module_serials, whatever the reads give
ModulesInit == CoreIdle /\ QueueIdle /\ AuxIdle

ModulesNext == \E record \in ModuleRecords : ModuleRead(record)

SpecModules == ModulesInit /\ [][ModulesNext]_vars

\* ---- read_module_serials called several times on one battery stack
ModuleListNext ==
    \/ \E record \in ModuleRecords : ModuleRead(record)
    \/ ModuleCall

SpecModuleList == ModulesInit /\ [][ModuleListNext]_vars

\* ---- decodings of register values
NumInit == CoreIdle /\ QueueIdle /\ AuxIdle

NumNext ==
    \/ \E high \in Words, low \in Words : NumSplit(high, low)
    \/ \E r \in Words, signed \in BOOLEAN, multiplier \in {0, 1} :
          NumConvert(r, signed, multiplier)

SpecNum == NumInit /\ [][NumNext]_vars

\* ---- the bit helpers and the selection of a bit option
SelInit == CoreIdle /\ QueueIdle /\ AuxIdle

SelNext ==
    \/ \E value \in BitValues, p \in BitPositions, b \in BOOLEAN : SelSetBit(value, p, b)
    \/ \E cached \in SelectValues \cup {NoValue}, p \in SelectBits,
          conflicts_with \in BitLists, requires \in ShortBitLists, connected \in BOOLEAN :
          SelSetRegisterBit(cached, p, conflicts_with, requires, connected)
    \/ SelReturn

SpecSelect == SelInit /\ [][SelNext]_vars

\* ---- clock_drift_test called again and again for one controller
DriftInit == CoreIdle /\ QueueIdle /\ AuxIdle

DriftNext ==
    \/ \E apart \in Offsets, connected \in BOOLEAN : DriftCheck(apart, connected)
    \/ \E step \in ClockSteps : DriftTick(step)

SpecDrift == DriftInit /\ [][DriftNext]_vars

\* ---- writes executed one after the other, by two controllers
WriteInit == CoreIdle /\ QueueIdle /\ AuxIdle

WriteNext ==
    \/ \E c \in Writers, multiple \in BOOLEAN, register \in WriteRegisters,
          values \in ValueLists, outcome \in ExecOutcomes :
          WrExecute(c, multiple, register, values, outcome)
    \/ WrReturn

SpecWrite == WriteInit /\ [][WriteNext]_vars

(***************************************************************************)
(* The claims                                                              *)
(***************************************************************************)

\* where caller c stands in the order of the puts (0: it has put nothing)
SubmitIndex(c) ==
    IF \E i \in 1..Len(submitted) : submitted[i] = c
      THEN CHOOSE i \in 1..Len(submitted) : submitted[i] = c
      ELSE 0

\* C1: the write requests of one controller are taken off the queue in the
\* order they were put (the requests taken so far are exactly the first puts,
\* in order), their writes reach the transport in that same order, each at
\* most once, and a write goes to the transport only after the one before it
\* has ended: at most one write is in progress at a time.
C1_FifoOneAtATime ==
    /\ Len(dequeued) <= Len(submitted)
    /\ \A i \in 1..Len(dequeued) : dequeued[i] = submitted[i]
    /\ \A i, j \in 1..Len(wire) :
          i < j => /\ SubmitIndex(wire[i]) > 0
                   /\ SubmitIndex(wire[i]) < SubmitIndex(wire[j])
    /\ Len(wire) - completed \in {0, 1}
    /\ Len(wire) - completed = 1 <=> wq.pc = "io"

\* C1 witness: requests were put in an order that is not the callers' own
\* order, two writes have reached the transport, the second while a third
\* request waits on the queue.
C1_Witness ==
    /\ Len(submitted) = 3
    /\ submitted[1] > submitted[2]
    /\ Len(wire) = 2
    /\ wq.pc = "io"
    /\ Len(write_queue) = 1
    /\ wq.mode = "run"

\* C2 as stated: once the cancelled consumer has left process_write_queue,
\* every request that was put before the cancellation has its future resolved
\* (or cancelled by its own caller).
\* The code does not keep this: the request the consumer was executing when
\* it was cancelled is abandoned with its future pending.
C2_CancelDrainsAll ==
    wq.pc = "exited" => \A c \in before_cancel : future[c] \in {"result", "None", "cancelled"}

\* the cache key of the last call, and the keys of the range it named
OpKey == make_key(cache_op.key, cache_op.register)
OpRange == {make_key(cache_op.key, cache_op.register + i) : i \in 0..(cache_op.count - 1)}

\* C11: set stores the value with expiry = time of the set + ttl and touches
\* no other entry; get returns the stored value exactly while now < expiry
\* and leaves the cache alone; once now >= expiry, get returns None and
\* removes that entry, so total_entries goes down by one; a get of an absent
\* key returns None. No get returns a value whose expiry has been reached.
C11_GetUntilExpiry ==
    /\ cache_op.op = "set" =>
          /\ OpKey \in DOMAIN cache
          /\ cache[OpKey] = [value |-> cache_op.value, expires_at |-> cache_op.at + cache_op.ttl]
          /\ DOMAIN cache = DOMAIN cache_pre \cup {OpKey}
          /\ \A k \in DOMAIN cache_pre \ {OpKey} : cache[k] = cache_pre[k]
    /\ cache_op.op = "get" =>
          IF OpKey \notin DOMAIN cache_pre
            THEN ~cache_op.hit /\ cache = cache_pre
            ELSE IF cache_op.at < cache_pre[OpKey].expires_at
              THEN /\ cache_op.hit
                   /\ cache_op.value = cache_pre[OpKey].value
                   /\ cache = cache_pre
              ELSE /\ ~cache_op.hit
                   /\ DOMAIN cache = DOMAIN cache_pre \ {OpKey}
                   /\ \A k \in DOMAIN cache : cache[k] = cache_pre[k]
                   /\ stats(cache, cache_op.at).total_entries
                        = stats(cache_pre, cache_op.at).total_entries - 1

\* C11 witness: a get at the very instant of expiry found its entry, returned
\* None and purged it, while another entry stayed.
C11_Witness ==
    /\ cache_op.op = "get"
    /\ OpKey \in DOMAIN cache_pre
    /\ cache_op.at = cache_pre[OpKey].expires_at
    /\ cache_pre[OpKey].expires_at > 0
    /\ ~cache_op.hit
    /\ stats(cache, monotonic).total_entries = 1

\* C12 as stated: get_range and is_range_cached succeed iff every member of
\* the range is present and unexpired, and when they fail no entry of the
\* range remains in the cache. The code does not keep the second part: a
\* failing call deletes at most the first expired member it meets.
C12_RangeAllOrNothing ==
    cache_op.op \in {"get_range", "is_range_cached"} =>
        /\ cache_op.hit <=>
              \A k \in OpRange : k \in DOMAIN cache_pre /\ cache_op.at < cache_pre[k].expires_at
        /\ cache_op.hit /\ cache_op.op = "get_range" =>
              cache_op.values = [i \in 1..cache_op.count |->
                                  cache_pre[make_key(cache_op.key, cache_op.register + i - 1)].value]
        /\ ~cache_op.hit => OpRange \cap DOMAIN cache = {}

\* C13: a call of get_modbus_updates made while a poll of the same tier with
\* the same set of start registers is in flight performs no read, and two
\* polls of one tier with the same set of start registers are never in flight
\* together.
C13_DedupInFlight ==
    /\ \A p \in PollCalls : poll[p].dup => poll[p].reads = 0 /\ ~Polling(p)
    /\ \A p, q \in PollCalls :
          p # q /\ Polling(p) /\ Polling(q) /\ poll[p].tier = poll[q].tier
            => group_hash(poll[p].groups) # group_hash(poll[q].groups)

\* C13 witness: while one poll is reading, a second call for groups with the
\* same start registers (not the same groups) on the same tier was skipped,
\* and so did no read.
C13_Witness ==
    \E p, q \in PollCalls :
        /\ poll[p].pc = "read"
        /\ poll[q].dup
        /\ poll[q].alias
        /\ poll[q].pc = "idle"
        /\ poll[q].reads = 0

\* the first stack index whose probe failed, MAX_BATTERY_STACKS if none did
FirstFailed ==
    IF \E i \in 1..Len(detect.probes) : ~detect.probes[i]
      THEN (CHOOSE i \in 1..Len(detect.probes) :
                ~detect.probes[i] /\ \A j \in 1..(i - 1) : detect.probes[j]) - 1
      ELSE MAX_BATTERY_STACKS

\* C14: the stacks are probed in the order 0, 1, 2, 3 (the probe of stack i is
\* the (i+1)-th probe, issued to slave 200+i), probing stops at the first
\* failed probe, the controllers returned are exactly those of the stacks
\* 0..k-1 with k the first index whose probe failed (4 if none), in that
\* order, and no read ever goes to a slave id above 200+k.
C14_SequentialDetect ==
    /\ Len(detect.probes) <= MAX_BATTERY_STACKS
    /\ \A i \in 1..Len(detect.probes) : battery_reads[slave_id(i - 1)] > 0
    /\ \A sl \in Slaves : battery_reads[sl] > 0 =>
          /\ sl <= slave_id(FirstFailed)
          /\ sl - BATTERY_SLAVE_BASE <= Len(detect.probes)
    /\ \A i \in 1..Len(detect.detected) : detect.detected[i] = slave_id(i - 1)
    /\ Len(detect.detected) <= FirstFailed
    /\ detect.pc = "done" =>
          /\ Len(detect.detected) = FirstFailed
          /\ Len(detect.probes) = IF FirstFailed < MAX_BATTERY_STACKS
                                     THEN FirstFailed + 1 ELSE MAX_BATTERY_STACKS

\* C14 witness: stacks 0 and 1 answered, stack 2 did not; detection ended
\* with two controllers and no read to slave 203.
C14_Witness ==
    /\ detect.pc = "done"
    /\ detect.probes = <<TRUE, TRUE, FALSE>>
    /\ detect.detected = <<200, 201>>
    /\ battery_reads[202] = 1
    /\ battery_reads[203] = 0

\* the four documented edges of CircuitBreaker.state
DocumentedEdges ==
    {<<CLOSED, OPEN>>, <<OPEN, HALF_OPEN>>, <<HALF_OPEN, OPEN>>, <<HALF_OPEN, CLOSED>>}

\* C15 as stated: whatever connect() calls interleave, a step of connect()
\* that changes the breaker's state takes one of the four documented edges.
\* The code does not keep this: an attempt admitted while CLOSED can succeed
\* after another attempt's failure has opened the breaker, and its
\* record_success() then takes the state from OPEN straight to CLOSED.
C15_DocumentedEdgesOnly ==
    ctl_pre.cb.state # circuit_breaker.state
        => <<ctl_pre.cb.state, circuit_breaker.state>> \in DocumentedEdges

\* C16 as stated: while an attempt admitted in HALF_OPEN (the recovery probe)
\* is with the transport, its outcome not yet recorded, no second attempt is
\* admitted in HALF_OPEN. The code does not keep this: can_attempt() returns
\* True in HALF_OPEN every time it is asked.
C16_SingleProbe ==
    \A t, u \in ConnTasks :
        /\ conn_task[t].pc = "connecting" /\ conn_task[t].probe
        /\ conn_task[u].pc = "connecting" /\ conn_task[u].probe
        => t = u

C19_Resolved ==
    \A c \in Callers :
        /\ set_results[c] <= 1
        /\ set_results[c] = 1 <=> future[c] \in {"result", "None"}
        /\ future[c] \in {"result", "None"} =>
              /\ \E i \in 1..Len(dequeued) : dequeued[i] = c
              /\ wq.cur.caller # c
        /\ future[c] = "result" =>
              /\ c \in write_ok
              /\ \E i \in 1..Len(wire) : wire[i] = c
        /\ future[c] = "None" => c \notin write_ok

\* a step leaves every future that is done (resolved, or cancelled by its
\* caller) as it is
C19_DoneStaysDone ==
    \A c \in Callers :
        future[c] \in {"result", "None", "cancelled"} => future'[c] = future[c]

\* C19: each request's future is resolved at most once, by the consumer, only
\* after that request's own execution has ended, and with its outcome: the
\* transport's response when the write got one that is no error, None when
\* the write failed or the controller could not connect; a future that is
\* done never changes again.
C19_ResolvedOnceWithOutcome == []C19_Resolved /\ [][C19_DoneStaysDone]_vars

\* C19 witness: one request was resolved with the response of its write, one
\* with None without its write ever reaching the transport, and one was
\* cancelled by its caller and then executed, its future left alone.
C19_Witness ==
    \E a, b, c \in Callers :
        /\ future[a] = "result"
        /\ future[b] = "None" /\ \A i \in 1..Len(wire) : wire[i] # b
        /\ future[c] = "cancelled" /\ c \in write_ok

\* C18: a task cancelled while it is suspended in connect(), in a read of
\* input or holding registers or in the execution of a write gets
\* CancelledError from the operation, never None or False, and the
\* cancellation leaves the breaker and the failure counter as they were.
C18_CancelPropagates ==
    op_ev.kind = "cancelled" =>
        /\ op_ev.ret = "CancelledError"
        /\ op_ev.untouched

\* a write cancelled during its transport call, after a connect() that failed
C18_Witness ==
    /\ op_ev.kind = "cancelled"
    /\ op_ev.op = "write"
    /\ op_ev.from = "io"
    /\ circuit_breaker.failure_count > 0
    /\ op_task[op_ev.task].ret = "CancelledError"

\* C20: the transport call of a read starts at least 50 ms, and that of a
\* write at least 100 ms, after the request the controller recorded last.
C20_InterFrameDelay ==
    op_ev.kind = "start" =>
        op_ev.at - op_ev.prev >= (IF op_ev.op = "write"
                                    THEN INTER_FRAME_DELAY_WRITE_MS
                                    ELSE INTER_FRAME_DELAY_READ_MS)

\* a write that slept in inter_frame_wait and started exactly 100 ms after an
\* earlier request
C20_Witness ==
    /\ op_ev.kind = "start"
    /\ op_ev.op = "write"
    /\ op_ev.from = "sleep"
    /\ op_ev.prev > 0
    /\ op_ev.at - op_ev.prev = INTER_FRAME_DELAY_WRITE_MS

\* C21: on one transport every operation starts at least the inter-frame
\* delay (50 ms for a read, 100 ms for a write) after the operation before
\* it, whichever controller or battery stack read issued either of them.
C21_PerTransportDelay ==
    frame_ev.kind = "start" /\ frame_ev.prev # NoTime =>
        frame_ev.at - frame_ev.prev >= (IF frame_ev.write
                                          THEN INTER_FRAME_DELAY_WRITE_MS
                                          ELSE INTER_FRAME_DELAY_READ_MS)

\* C22: a read answered by a Modbus exception response returns None and
\* leaves the breaker, connect_failures and the last-success time as they
\* were; the last-success time changes only in the step in which a read
\* returns registers.
C22_ErrorResponse ==
    op_ev.kind = "io_done" /\ op_ev.op \in {"read_input", "read_holding"}
                           /\ op_ev.from = "isError" =>
        /\ op_ev.ret = "None"
        /\ op_ev.untouched
        /\ last_modbus_success = op_ev.stamp

C22_StampedBySuccess ==
    last_modbus_success' # last_modbus_success =>
        /\ op_ev'.kind = "io_done"
        /\ op_ev'.op \in {"read_input", "read_holding"}
        /\ op_ev'.ret = "result"

C22_ErrorResponseNoPenalty == []C22_ErrorResponse /\ [][C22_StampedBySuccess]_vars

\* an error response to a read later than an earlier successful read, with a
\* failed connect on the breaker's count
C22_Witness ==
    /\ op_ev.kind = "io_done"
    /\ op_ev.op = "read_holding"
    /\ op_ev.from = "isError"
    /\ op_ev.at > op_ev.stamp
    /\ op_ev.stamp > 0
    /\ circuit_breaker.failure_count > 0

\* C23: concurrent calls of get_tcp_client, get_client_lock and
\* release_client on one connection id have the effect of the same calls made
\* one after the other: every call returns what it returns in that order, and
\* whenever no call is inside a method body the pool is the pool of that
\* order (no lost ref_count update, one transport and one lock per entry).
C23_PoolSerialised ==
    /\ \A th \in Threads : thread[th].pc = "done" => thread[th].ret = lin_ret[th]
    /\ (\A th \in Threads : thread[th].pc \in {"idle", "with", "done"}) =>
          /\ mgr = lin
          /\ mgr_fresh = lin_fresh

\* two acquires were in progress at once, and both have returned
C23_Witness ==
    /\ \A th \in Threads : thread[th].pc = "done" /\ thread[th].op = "get_tcp_client"
    /\ ThreadKey \in DOMAIN mgr
    /\ mgr[ThreadKey].ref_count = 2
    /\ mgr_fresh.client = 1

\* the keys a device key's entries are stored under
StoredUnder(controller_key) == {make_key(controller_key, r) : r \in Registers}

\* the entries a removal is aimed at
Targets ==
    IF cache_op.op = "clear"
      THEN IF cache_op.hit THEN StoredUnder(cache_op.key) ELSE DOMAIN cache_pre
      ELSE IF cache_op.op = "invalidate" THEN {OpKey} ELSE OpRange

\* C24: clear(k) removes the entries stored under k and clear() all of them,
\* invalidate and invalidate_range the registers they name; every other
\* entry keeps its value and its expiry.
C24_RemovalsExact ==
    cache_op.op \in {"clear", "invalidate", "invalidate_range"} =>
        /\ DOMAIN cache = DOMAIN cache_pre \ Targets
        /\ \A x \in DOMAIN cache : cache[x] = cache_pre[x]

\* clear("10.0.0.5:502_1") with entries of both devices cached: the entry of
\* device 10 is still there
C24_Witness ==
    /\ cache_op.op = "clear"
    /\ cache_op.hit
    /\ cache_op.key = "10.0.0.5:502_1"
    /\ Cardinality(DOMAIN cache_pre) = 3
    /\ DOMAIN cache = {make_key("10.0.0.5:502_10", RegBase)}

\* C25: the passing of time, set, set_range and stats remove no entry; stats
\* counts every entry in total_entries and every expired one in
\* expired_entries; an entry goes only by a get, get_range or
\* is_range_cached that finds it expired, or by invalidate, invalidate_range
\* or clear.
C25_LazyExpiry ==
    /\ cache_op.op \in {"tick", "set", "set_range", "stats"} =>
          DOMAIN cache_pre \subseteq DOMAIN cache
    /\ cache_op.op \in {"tick", "stats"} => cache = cache_pre
    /\ cache_op.op = "stats" =>
          /\ cache_op.stats.total_entries = Cardinality(DOMAIN cache)
          /\ cache_op.stats.expired_entries =
                Cardinality({x \in DOMAIN cache : cache_op.at >= cache[x].expires_at})
    /\ \A x \in DOMAIN cache_pre \ DOMAIN cache :
          \/ cache_op.op \in {"invalidate", "invalidate_range", "clear"}
          \/ /\ cache_op.op \in {"get", "get_range", "is_range_cached"}
             /\ x \in (IF cache_op.op = "get" THEN {OpKey} ELSE OpRange)
             /\ cache_op.at >= cache_pre[x].expires_at

\* stats() counts an expired entry that nothing has touched since it expired
C25_Witness ==
    /\ cache_op.op = "stats"
    /\ cache_op.stats.total_entries = 2
    /\ cache_op.stats.expired_entries = 1

\* C26: on register 33139, with a non-zero value cached, a reading of 0 is
\* replaced by the cached value when it is the 1st or 2nd such reading in a
\* row and is returned as 0 when it is the 3rd; every other reading, and
\* every reading of another register, is returned as it is.
C26_SpikeFilter ==
    spike_ev.register # 0 =>
        IF spike_ev.register = SPIKE_REGISTER /\ spike_ev.value = 0 /\ spike_ev.cached # 0
          THEN /\ spike_ev.run \in {1, 2} => spike_ev.ret = spike_ev.cached
               /\ spike_ev.run = 3 => spike_ev.ret = 0
               /\ spike_ev.run \in 1..3
          ELSE spike_ev.ret = spike_ev.value

\* the third 0 in a row on register 33139 is accepted
C26_Witness ==
    /\ spike_ev.register = SPIKE_REGISTER
    /\ spike_ev.value = 0
    /\ spike_ev.cached = 50
    /\ spike_ev.run = 3
    /\ spike_ev.ret = 0

\* C27: a group tagged ONCE is in the controller's active groups exactly
\* until a poll that read it successfully has ended; the groups of the other
\* tiers are always in them, in their order.
C27_OnceRemoved ==
    LET AllGroups == {once_group, once_group_2, normal_group, fast_group}
    IN  /\ \A g \in AllGroups :
              g \in Elements(sensor_groups) <=> ~(g.poll_speed = "ONCE" /\ g \in read_ok)
        /\ SelectSeq(sensor_groups, LAMBDA g : g.poll_speed # "ONCE")
              = <<normal_group, fast_group>>

\* one ONCE group was read with the normal group and is gone; the other ONCE
\* group failed its read and is still active
C27_Witness ==
    /\ sensor_groups = <<once_group_2, normal_group, fast_group>>
    /\ read_ok = {once_group, normal_group}
    /\ once_poll.pc = "idle"

\* the index of the first module whose record is empty, MAX_MODULES if none
FirstBlank ==
    LET blanks == {i \in 1..Len(modules.records) : modules.records[i] = "blank"}
    IN  IF blanks = {} THEN MAX_MODULES
        ELSE (CHOOSE i \in blanks : \A j \in blanks : i <= j) - 1

\* C28 as stated: the records are read at 10821 + 9*i, i = 0, 1, ... in
\* order, up to the first empty one and at most 8 of them, and the serials
\* returned are exactly those of the modules before the first empty record.
\* The code does not keep the last part: a module whose read fails is left
\* out of the serials and the loop goes on to the modules after it.
C28_SerialsBeforeFirstEmpty ==
    /\ \A i \in 1..Len(modules.reads) :
          modules.reads[i] = MODULE_SERIAL_BASE + MODULE_SERIAL_COUNT * (i - 1)
    /\ Len(modules.reads) <= MAX_MODULES
    /\ modules.pc = "returned" =>
          /\ Len(modules.reads) = (IF FirstBlank < MAX_MODULES THEN FirstBlank + 1
                                                                 ELSE MAX_MODULES)
          /\ modules.serials = [i \in 1..FirstBlank |-> i - 1]

\* C29: split_s32([high, low]) of two 16-bit values is the signed 32-bit
\* reading of high * 2^16 + low: it lies in -2^31 .. 2^31 - 1, its lower 16
\* bits are low and its upper part is high, less 2^16 when high >= 2^15;
\* [1, 2] gives 65538, [65535, 65535] gives -1, [0, 0] gives 0.
C29_SplitS32 ==
    num.fn = "split_s32" =>
        LET high == num.values[1]
            low == num.values[2]
        IN  /\ num.ret >= -2147483647 - 1
            /\ num.ret <= 2147483647
            /\ num.ret % 65536 = low
            /\ (num.ret - low) \div 65536 = (IF high < 32768 THEN high ELSE high - 65536)
            /\ num.values = <<1, 2>> => num.ret = 65538
            /\ num.values = <<65535, 65535>> => num.ret = -1
            /\ num.values = <<0, 0>> => num.ret = 0

\* the most negative value: [32768, 0]
C29_Witness ==
    /\ num.fn = "split_s32"
    /\ num.values = <<32768, 0>>
    /\ num.ret = -2147483647 - 1

\* C30: a single register r decoded with scale 0 or 1 gives r - 65536 when
\* the field is signed and r >= 32768 and r otherwise; a signed field's
\* value lies in -32768 .. 32767.
C30_SingleRegister ==
    num.fn = "_convert_raw_value" =>
        LET r == num.values[1]
        IN  /\ num.ret = (IF num.signed /\ r >= 32768 THEN r - 65536 ELSE r)
            /\ num.signed => num.ret \in -32768..32767

\* 32768 in a signed field is -32768
C30_Witness ==
    /\ num.fn = "_convert_raw_value"
    /\ num.signed
    /\ num.values = <<32768>>
    /\ num.ret = -32768

\* C31: for a non-negative integer v, a bit position p and a boolean b,
\* get_bit_bool(set_bit(v, p, b), p) is b, every other bit of set_bit(v, p, b)
\* is the bit of v, and set_bit applied twice gives what it gives once.
C31_SetBit ==
    sel.fn = "set_bit" =>
        /\ get_bit_bool(sel.once, sel.p) = sel.b
        /\ \A q \in AllBits \ {sel.p} : get_bit_bool(sel.once, q) = get_bit_bool(sel.value, q)
        /\ sel.twice = sel.once

\* a set bit was cleared among other set bits, and a clear bit was set
C31_Witness ==
    /\ sel.fn = "set_bit"
    /\ sel.value = 2113
    /\ sel.p = 6
    /\ ~sel.b
    /\ sel.once = 2049

\* the value an option's selection is to give: the cached value with the
\* conflicts_with bits cleared, the requires bits set and the target bit set
SelectedValue(cached, p, conflicts_with, requires) ==
    LET keep(q) == /\ get_bit_bool(cached, q)
                   /\ ~\E i \in 1..Len(conflicts_with) : conflicts_with[i] = q
        on(q)   == \/ q = p
                   \/ \E i \in 1..Len(requires) : requires[i] = q
                   \/ keep(q)
        RECURSIVE sum(_)
        sum(q) == IF q > 17 THEN 0 ELSE (IF on(q) THEN 2 ^ q ELSE 0) + sum(q + 1)
    IN  sum(0)

\* C34: selecting a bit option computes the cached register value with the
\* conflicts_with bits cleared, the requires bits set and the target bit set,
\* and when that value differs from the cached value and the controller is
\* connected, the write of it is issued.
C34_SelectWrites ==
    sel.fn = "set_register_bit" =>
        LET cached == IF sel.cached = NoValue THEN 0 ELSE sel.cached
        IN  /\ sel.new = SelectedValue(cached, sel.p, sel.conflicts_with, sel.requires)
            /\ (sel.new # cached /\ sel.connected) => sel.written

\* the request of caller c is on the queue
Queued(c) == \E i \in 1..Len(write_queue) : write_queue[i].caller = c

\* the request of caller c was taken off the queue, its execution has ended
\* and its future is done
Served(c) ==
    /\ \E i \in 1..Len(dequeued) : dequeued[i] = c
    /\ wq.cur.caller # c
    /\ future[c] # "pending"

\* once connected for good, with the loop running, a queued request is served
C32_QueuedIsServed ==
    \A c \in LiveCallers : (conn_stable /\ Queued(c)) ~> Served(c)

\* a step of the running loop taken while the controller is disconnected
\* takes nothing off the queue: what was queued stays queued, in its order,
\* and no future of a queued request is resolved
C32_DisconnectedKeepsQueue ==
    (~client_connected /\ wq.mode = "run" /\ wq.mode' = "run") =>
        /\ dequeued' = dequeued
        /\ Len(write_queue') >= Len(write_queue)
        /\ SubSeq(write_queue', 1, Len(write_queue)) = write_queue
        /\ \A c \in Callers : Queued(c) => set_results'[c] = set_results[c]

\* C32: with the consumer loop running and the controller connected from
\* some point on, every request put on the queue is eventually taken off,
\* executed and its future done; while the controller is disconnected the
\* loop takes nothing off the queue and the queued requests stay in order.
C32_QueueProgress ==
    /\ C32_QueuedIsServed
    /\ [][C32_DisconnectedKeepsQueue]_vars

\* two requests waited on the queue while the controller was disconnected,
\* and both were served, the first with its result, once it was connected
C32_Witness ==
    /\ submitted = <<1, 2>>
    /\ dequeued = <<1, 2>>
    /\ future[1] = "result"
    /\ future[2] \in {"result", "None"}
    /\ wq.mode = "run"
    /\ wq.cur = NoReq
    /\ transport_connects = 0

\* the breaker rejects an attempt made now: OPEN, and the recovery timeout
\* has not passed since the last failure
Blocked ==
    /\ circuit_breaker.state = OPEN
    /\ circuit_breaker.last_failure_time # NoTime
    /\ now - circuit_breaker.last_failure_time < circuit_breaker.recovery_timeout

\* C33 as stated: the breaker is consulted before every connect attempt on
\* the controller's transport: no step taken while the breaker is OPEN within
\* its recovery timeout calls the transport's connect, whichever component
\* working through the controller takes it. The code does not keep this: a
\* battery stack read calls connect() of the controller's transport itself.
C33_BreakerGuardsTransport ==
    [][Blocked => transport_connects' = transport_connects]_vars

\* C38 as stated: whenever connect() returns True the breaker is CLOSED with
\* failure_count 0 and connect_failures is 0. The code does not keep this:
\* connect() returns True at once when the transport is connected, whoever
\* connected it, and leaves the breaker and the counter as they are.
C38_TrueMeansClosed ==
    (ctl_ev.kind \in {"already", "returned"} /\ conn_task[ctl_ev.task].ret = "True") =>
        /\ circuit_breaker.state = CLOSED
        /\ circuit_breaker.failure_count = 0
        /\ connect_failures = 0

\* C39: with failure_threshold >= 1, after any sequence of record_failure,
\* record_success and can_attempt calls: a CLOSED breaker has counted fewer
\* failures than its threshold; an OPEN or HALF_OPEN one has counted at
\* least its threshold and has a last failure time; and a breaker that has
\* counted no failure is CLOSED and has no last failure time.
C39_BreakerConsistent ==
    /\ circuit_breaker.failure_threshold >= 1
    /\ circuit_breaker.state = CLOSED
          => circuit_breaker.failure_count < circuit_breaker.failure_threshold
    /\ circuit_breaker.state \in {OPEN, HALF_OPEN}
          => /\ circuit_breaker.failure_count >= circuit_breaker.failure_threshold
             /\ circuit_breaker.last_failure_time # NoTime
    /\ circuit_breaker.failure_count = 0
          => /\ circuit_breaker.state = CLOSED
             /\ circuit_breaker.last_failure_time = NoTime

\* a breaker that failed its recovery attempt and is HALF_OPEN again, with
\* more failures counted than its threshold
C39_Witness ==
    /\ circuit_breaker.state = HALF_OPEN
    /\ circuit_breaker.failure_count > circuit_breaker.failure_threshold
    /\ cb_op = "can_attempt"
    /\ cb_pre.state = OPEN

\* C37 as stated: whatever controllers are constructed and whatever
\* close_connection calls are made, repeated ones included, the transport a
\* controller acquired stays in the pool, the one of its connection_id, as
\* long as that controller has not called close_connection. The code does
\* not keep this: every close_connection releases a reference, so a second
\* call on one controller gives away the reference of another.
C37_OpenWhileHeld ==
    \A c \in Ctrls :
        ctl[c].built =>
            /\ ctl[c].key \in DOMAIN clients
            /\ clients[ctl[c].key].client = ctl[c].client

\* C35 as stated: a check issues the correction (and returns True) only when
\* the clocks are more than 60 s apart, they were so on more than 5 checks in
\* a row before it, the controller is connected and at least 3600 s have
\* passed since the previous correction; a check that finds the clocks within
\* 60 s resets the counter to 0, and so does a correction. The code does not
\* keep this around midnight, where it takes device and current time to be
\* two days apart when they are seconds apart.
C35_DriftCorrection ==
    drift_ev.kind = "check" =>
        /\ drift_ev.adjusted =>
              /\ abs(drift_ev.apart) > DRIFT_TOLERANCE
              /\ drift_ev.run > DRIFT_CHECKS
              /\ drift_ev.connected
              /\ drift_ev.since >= CLOCK_CORRECTION_COOLDOWN
              /\ drift_data.drift_counter = 0
        /\ abs(drift_ev.apart) <= DRIFT_TOLERANCE => drift_data.drift_counter = 0

\* the key a value of register r of controller c is cached under
CachedUnder(c, r) ==
    c.connection_id \o "_" \o ToString(c.device_id) \o ":" \o ToString(r)

\* C36: a write that fails (connect() returned False, the device answered
\* with an error response, or the transport raised) returns None, leaves the
\* value cache as it was and fires no event; a successful write of n
\* registers (n = 1 for a single write) caches each written value under
\* controller_key:register, changes nothing else in the cache, and fires one
\* event per register, in ascending order of the registers.
C36_WriteEffects ==
    wr.kind = "write" =>
        LET n == IF wr.multiple THEN Len(wr.values) ELSE 1
            written == {CachedUnder(wr.controller, wr.register + i - 1) : i \in 1..n}
        IN  IF wr.outcome # "ok"
              THEN /\ wr.ret = "None"
                   /\ values_cache = wr.before
                   /\ wr.fired = <<>>
              ELSE /\ wr.ret = "result"
                   /\ DOMAIN values_cache = DOMAIN wr.before \cup written
                   /\ \A k \in DOMAIN wr.before \ written : values_cache[k] = wr.before[k]
                   /\ \A i \in 1..n :
                        values_cache[CachedUnder(wr.controller, wr.register + i - 1)]
                            = wr.values[i]
                   /\ Len(wr.fired) = n
                   /\ \A i \in 1..n :
                        wr.fired[i] = [REGISTER |-> wr.register + i - 1,
                                       VALUE |-> wr.values[i],
                                       CONTROLLER |-> wr.controller.connection_id,
                                       SLAVE |-> wr.controller.device_id]

\* device 10 wrote two registers over values cached before, next to the
\* values of device 1, which stay
C36_Witness ==
    /\ wr.kind = "write"
    /\ wr.outcome = "ok"
    /\ wr.multiple
    /\ wr.controller.device_id = 10
    /\ wr.values = <<7, 9>>
    /\ wr.register = RegBase
    /\ "10.0.0.5:502_10:5000" \in DOMAIN wr.before
    /\ wr.before["10.0.0.5:502_10:5000"] = 9
    /\ "10.0.0.5:502_1:5000" \in DOMAIN values_cache
    /\ values_cache["10.0.0.5:502_10:5000"] = 7
    /\ values_cache["10.0.0.5:502_10:5001"] = 9

\* C40 as stated: after any number of read_module_serials calls, whatever
\* reads failed, were empty or gave a serial, battery.modules[i].index is i
\* at every position i, no index occurs twice and there are at most 8
\* entries. The code does not keep this: after a failed read the loop goes on
\* (C28), and the next module is appended at the position of the one that
\* is missing.
C40_ModuleListConsistent ==
    /\ \A p \in 1..Len(modules.battery) : modules.battery[p].index = p - 1
    /\ \A p, q \in 1..Len(modules.battery) :
          modules.battery[p].index = modules.battery[q].index => p = q
    /\ Len(modules.battery) <= MAX_MODULES

\* C3: record_failure() always increments failure_count and sets
\* last_failure_time to the current time; from CLOSED the breaker becomes OPEN
\* iff the incremented count has reached failure_threshold and stays CLOSED
\* otherwise; from HALF_OPEN it becomes OPEN; from OPEN it stays OPEN.
C3_RecordFailure ==
    cb_op = "record_failure" =>
        /\ circuit_breaker.failure_count = cb_pre.failure_count + 1
        /\ circuit_breaker.last_failure_time = now
        /\ circuit_breaker.state =
              IF cb_pre.state = CLOSED
                THEN IF cb_pre.failure_count + 1 >= cb_pre.failure_threshold
                       THEN OPEN ELSE CLOSED
                ELSE OPEN
        /\ circuit_breaker.failure_threshold = cb_pre.failure_threshold
        /\ circuit_breaker.recovery_timeout = cb_pre.recovery_timeout

\* the third failure in a row opens a breaker whose threshold is 3
C3_Witness ==
    /\ cb_op = "record_failure"
    /\ cb_pre.state = CLOSED
    /\ cb_pre.failure_threshold = 3
    /\ circuit_breaker.state = OPEN
    /\ circuit_breaker.failure_count = 3

\* C4: can_attempt() returns true in CLOSED and in HALF_OPEN and changes
\* nothing; in OPEN it returns true and moves to HALF_OPEN iff
\* now - last_failure_time >= recovery_timeout, and otherwise returns false
\* and leaves the breaker as it was.
C4_CanAttempt ==
    cb_op = "can_attempt" =>
        IF cb_pre.state = OPEN
          THEN IF now - cb_pre.last_failure_time >= cb_pre.recovery_timeout
                 THEN /\ cb_ret = TRUE
                      /\ circuit_breaker = [cb_pre EXCEPT !.state = HALF_OPEN]
                 ELSE /\ cb_ret = FALSE
                      /\ circuit_breaker = cb_pre
          ELSE /\ cb_ret = TRUE
               /\ circuit_breaker = cb_pre

\* an OPEN breaker is asked exactly recovery_timeout after its last failure
C4_Witness ==
    /\ cb_op = "can_attempt"
    /\ cb_pre.state = OPEN
    /\ now - cb_pre.last_failure_time = cb_pre.recovery_timeout
    /\ circuit_breaker.state = HALF_OPEN
    /\ cb_ret = TRUE

\* C5: record_success(), in any state and with any failure_count, leaves the
\* breaker CLOSED with failure_count 0 and no last_failure_time, so that the
\* next can_attempt() returns true.
C5_RecordSuccess ==
    cb_op = "record_success" =>
        /\ circuit_breaker.state = CLOSED
        /\ circuit_breaker.failure_count = 0
        /\ circuit_breaker.last_failure_time = NoTime
        /\ can_attempt(circuit_breaker, now).ret = TRUE

\* a success recorded by a HALF_OPEN breaker that had counted failures
C5_Witness ==
    /\ cb_op = "record_success"
    /\ cb_pre.state = HALF_OPEN
    /\ cb_pre.failure_count >= cb_pre.failure_threshold
    /\ circuit_breaker.state = CLOSED

\* C6: a connect() called while disconnected that the breaker rejects returns
\* False without calling the transport's connect and is not counted as a
\* failure: breaker (state, failure_count, last_failure_time),
\* connect_failures and the number of transport connects are as before.
C6_RejectedConnect ==
    ctl_ev.kind = "rejected" =>
        /\ conn_task[ctl_ev.task].pc = "returned"
        /\ conn_task[ctl_ev.task].ret = "False"
        /\ circuit_breaker = ctl_pre.cb
        /\ connect_failures = ctl_pre.connect_failures
        /\ transport_connects = ctl_pre.transport_connects

\* a connect() rejected by the OPEN breaker of a controller
C6_Witness ==
    /\ ctl_ev.kind = "rejected"
    /\ ~client_connected
    /\ circuit_breaker.state = OPEN
    /\ circuit_breaker.failure_count >= CIRCUIT_BREAKER_FAILURE_THRESHOLD
    /\ connect_failures >= CIRCUIT_BREAKER_FAILURE_THRESHOLD

\* C7: for an identity present in the pool every acquire returned the same
\* transport, the one of its entry, and every get_client_lock the same lock,
\* the one of its entry; and the entry's ref_count is the number of acquires
\* minus the number of releases since the entry was created.
C7_SameTransportAndCount ==
    \A k \in DOMAIN clients :
        /\ handed[k] = {clients[k].client}
        /\ locks_handed[k] \subseteq {clients[k].lock}
        /\ NoLock \notin locks_handed[k]
        /\ clients[k].ref_count = acquires[k] - releases[k]

\* a second acquire of a TCP identity whose lock was handed out: ref_count 2
C7_Witness ==
    \E k \in TcpKeys :
        /\ pool_op.op = "get_tcp_client" /\ pool_op.key = k
        /\ k \in DOMAIN pool_pre.clients
        /\ pool_op.ret = pool_pre.clients[k].client
        /\ acquires[k] = 2 /\ releases[k] = 0
        /\ clients[k].ref_count = 2
        /\ locks_handed[k] # {}

\* C8: release_client closes the transport (if connected) and removes the
\* entry exactly when the decremented ref_count is <= 0, and otherwise leaves
\* the transport as it is and in the pool; after n acquires and n releases of
\* an identity its entry is absent; an acquire of an absent identity creates
\* a fresh transport with ref_count 1.
C8_Release ==
    /\ (pool_op.op = "release_client" /\ pool_op.key \in DOMAIN pool_pre.clients) =>
          LET k == pool_op.key
              e == pool_pre.clients[k]
          IN  IF e.ref_count - 1 <= 0
                THEN /\ k \notin DOMAIN clients
                     /\ e.client \notin connected_clients
                     /\ pool_op.closed = {e.client} \cap pool_pre.connected
                ELSE /\ k \in DOMAIN clients
                     /\ clients[k] = [e EXCEPT !.ref_count = e.ref_count - 1]
                     /\ connected_clients = pool_pre.connected
                     /\ pool_op.closed = {}
    /\ \A k \in Keys : (acquires[k] > 0 /\ acquires[k] = releases[k]) => k \notin DOMAIN clients
    /\ (pool_op.op \in {"get_tcp_client", "get_serial_client"}
          /\ pool_op.key \notin DOMAIN pool_pre.clients) =>
          /\ pool_op.key \in DOMAIN clients
          /\ clients[pool_op.key].ref_count = 1
          /\ clients[pool_op.key].client = pool_op.ret
          /\ pool_op.ret > pool_pre.next_client

\* the second of two releases after two acquires closes a connected transport
C8_Witness ==
    \E k \in Keys :
        /\ pool_op.op = "release_client" /\ pool_op.key = k
        /\ acquires[k] = 2 /\ releases[k] = 2
        /\ k \notin DOMAIN clients
        /\ pool_op.closed # {}

\* C9: whatever acquires and releases were called, every entry present in the
\* pool has ref_count >= 1.
C9_RefCountPositive ==
    \A k \in DOMAIN clients : clients[k].ref_count >= 1

\* a release of an identity that is not in the pool any more (one release
\* more than acquires), the other identity being in the pool
C9_Witness ==
    \E k \in Keys :
        /\ pool_op.op = "release_client" /\ pool_op.key = k
        /\ k \notin DOMAIN pool_pre.clients
        /\ acquires[k] > 0 /\ acquires[k] = releases[k]
        /\ \E j \in DOMAIN clients : clients[j].ref_count >= 1

\* C10: on one connection at most one Modbus read or write is in flight at
\* any time: every transaction of a polling read, a queued write or a battery
\* stack read, of every controller sharing the connection identity, is made
\* while its task holds the one lock of that connection, which no two tasks
\* hold together.
C10_OneTransactionInFlight ==
    /\ \A o \in 1..next_client : Cardinality(InFlight(o)) <= 1
    /\ \A c \in Ctrls, k \in IoKinds :
          io_pc[c][k] \in {"ifw", "bconnect", "io"} =>
              /\ ctl[c].poll_lock # NoLock
              /\ ctl[c].poll_lock \in locked
              /\ \A c2 \in Ctrls, k2 \in IoKinds :
                    (<<c2, k2>> # <<c, k>> /\ ctl[c2].key = ctl[c].key
                       /\ io_pc[c2][k2] \in {"ifw", "bconnect", "io"}) => FALSE
    /\ \A c \in Ctrls, c2 \in Ctrls :
          (ctl[c].built /\ ctl[c2].built /\ ctl[c].key = ctl[c2].key) =>
              /\ ctl[c].client = ctl[c2].client
              /\ ctl[c].poll_lock = ctl[c2].poll_lock

\* two controllers share a connection: a battery read of one is in flight
\* while a polling read of the other and a write of the first wait for the lock
C10_Witness ==
    /\ ctl["A"].built /\ ctl["B"].built
    /\ ctl["A"].key = ctl["B"].key
    /\ io_pc["A"]["battery"] = "io"
    /\ io_pc["B"]["poll"] = "wait"
    /\ io_pc["A"]["write"] = "wait"

=============================================================================
